---- MODULE Spec2Model ----
(***************************************************************************)
(* Verification model of the LLM routing gateway:                          *)
(*   - Router (langgraph_router.py) driven by DynamicLLMRouter.process_query*)
(*     (main2.py), one workflow run per query, several queries per Router  *)
(*   - SimpleRouter (simple_router.py)                                     *)
(*   - ConversationCache (conversation_cache.py)                           *)
(*   - RateLimiter and DDoSProtection (rate_limiter.py)                    *)
(* Each component has its own specification over the shared variable list. *)
(***************************************************************************)
EXTENDS Integers, Sequences, FiniteSets, TLC

(***************************************************************************)
(* Bounds                                                                  *)
(***************************************************************************)
\* largest number of system models configured in tier1
MaxTierSize == 8
\* largest tier1 size explored with two concurrent queries
MaxConcTierSize == 0
MaxCacheLen == 2
MaxCacheNow == 2
MaxRateTicks == 3
MaxBusyBucket == 1
MaxDDoSTicks == 3
MaxBusyLog == 3
MaxWords == 2
MaxSingleTierSize == 2
MaxTokenSteps == 2
MaxRatingOps == 2
MaxCandidates == 2
MaxScript == 2
MaxEquivTierSize == 1

(***************************************************************************)
(* Program constants                                                       *)
(***************************************************************************)
MAX_RETRIES_PER_MODEL == 3
WORKFLOW_RECURSION_LIMIT == 50

(***************************************************************************)
(* Python values                                                           *)
(***************************************************************************)
\* Python None in a string-valued field; str(None) is the text "None"
None == "<None>"
\* None in the integer-valued field selected_model / used_model
NoModel == 0
Str(v) == IF v = None THEN "None" ELSE v
Truthy(v) == v # None /\ v # ""
\* `a or b` on string-or-None values
PyOr(a, b) == IF Truthy(a) THEN a ELSE b

Threads == {"A", "B"}
Tiers == {"tier1", "tier2", "tier3"}
TierOrder == <<"tier1", "tier2", "tier3">>
Queries == {"", "q"}
\* the empty and the whitespace-only query
BlankQueries == {"", " "}

\* identifiers of the models: system models are 1..n (tier1) and 11 (tier2);
\* the override (user) model of query A is 101, of query B 102
SysModels(n) == [i \in 1..n |-> i]
OverrideOf(t) == IF t = "A" THEN 101 ELSE 102
EmptyTiers == [k \in Tiers |-> << >>]
BaseConfig(n) == [tier1 |-> SysModels(n), tier2 |-> <<11>>, tier3 |-> << >>]

\* user_models argument of process_query: None, a dict whose tier lists are
\* all empty (what crud.get_user_models_by_tier returns for a user without
\* keys), or a dict with one private model in tier1 or tier2
NoUserModels == [none |-> TRUE]
UserModelChoices(t) ==
    { NoUserModels,
      [ids |-> EmptyTiers],
      [ids |-> [EmptyTiers EXCEPT !["tier1"] = <<OverrideOf(t)>>]],
      [ids |-> [EmptyTiers EXCEPT !["tier2"] = <<OverrideOf(t)>>]] }
HasUserModels(um) == um # NoUserModels

VARIABLES
    mode,                     \* "seq": queries one after another; "conc": in parallel
                              \* threads; "simple": one SimpleRouter.route call
    max_retries,              \* constructor argument max_retries (self.max_retries)
    base_config,              \* models_config the Router was constructed with
    models_config,            \* Router.models_config (shared by all queries)
    pc,                       \* position of each query's thread
    query,                    \* query argument of each process_query call
    user_models,              \* user_models argument of each query
    original_models_config,   \* local of Router.route
    state,                    \* RouterState of each workflow run
    step,                     \* index of the workflow superstep about to run
    calls,                    \* collaborator calls made for the query
    selected,                 \* candidate indices chosen by select_model, in order
    raised,                   \* str(e) of the exception that left Router.route, or None
    response                  \* QueryResponse returned by process_query

VARIABLES
    now,                      \* time.time(), in seconds
    cache,                    \* ConversationCache.cache: the list of entries
    last_op,                  \* the last cache operation and its query
    got                       \* what the last get did, NoGet after any other operation

VARIABLES
    rl_config,                \* RateLimiter.config: ban_threshold, ban_duration
    user_tier,                \* DynamicLLMRouter.user_tier, the tier passed with every call
    user_of,                  \* the user_id passed with the calls of each identifier
    minute_buckets,           \* RateLimiter.minute_buckets
    hour_buckets,             \* RateLimiter.hour_buckets
    day_buckets,              \* RateLimiter.day_buckets
    violations,               \* RateLimiter.violations
    banned_until,             \* RateLimiter.banned_until
    user_quotas,              \* RateLimiter.user_quotas
    system_load,              \* RateLimiter.system_load
    month_end,                \* whether today is the last day of its month
    rl_last,                  \* the last check_rate_limit call and its result
    rl_lock,                  \* RateLimiter._lock: the worker holding it, or None
    rl_call,                  \* per worker, the position and locals of its check_rate_limit call
    rl_done                   \* per identifier, the admissions and violations the finished calls reported

VARIABLES
    ddos_config,              \* DDoSProtection: window_size, threshold, block_duration
    request_log,              \* DDoSProtection.request_log
    blocked_ips,              \* DDoSProtection.blocked_ips
    admitted,                 \* arrival times of the admitted requests inside the window
    ddos_last                 \* the last check_request call and its result

VARIABLES
    cls_pipe,                 \* classifier.pipe for this call: absent, or what pipe(text) does
    cls_text,                 \* the text given to classify_text
    cls_result                \* what classify_text returned or raised

VARIABLES
    cost_model,               \* calculate_cost: model_name
    cost_in,                  \* calculate_cost: input_tokens
    cost_out,                 \* calculate_cost: output_tokens
    cost_result               \* the value calculate_cost returned

VARIABLES
    ratings,                  \* table model_ratings: the committed row of each identifier
    ratings0,                 \* the table as it was at the start
    fb_log,                   \* table model_feedback: committed rows per model (sum of points_change, count)
    sess,                     \* the database sessions: position in add_feedback and the loaded row
    rt_sessions,              \* the sessions that take requests
    rt_ops,                   \* number of calls made so far
    rt_last                   \* the last finished call and its result

VARIABLES
    fb_models,                \* FallbackChatGradientAI.models
    fb_keyed,                 \* the candidates an API key resolves for
    fb_pc,                    \* invoke: "loop", "returned" or "raised"
    fb_idx,                   \* invoke: position of model_name in self.models
    fb_attempt,               \* invoke: attempt of the inner loop
    fb_http,                  \* the requests.post calls made so far and how they ended
    fb_last_exception,        \* invoke: last_exception
    fb_result,                \* what invoke returned or raised
    fb_max_retries,           \* invoke: the argument max_retries
    fb_creds                  \* the keys given to __init__ and the keys the environment holds

VARIABLES
    timeout_at,               \* API endpoint: backend calls made when wait_for timed out, per query
    conv_saved                \* API endpoint: what send_message gave to conv_cache.set, per query

VARIABLES
    script                    \* the inputs and the collaborator behaviour given to both routers

cacheVars == <<cache, last_op, got>>
rateVars == <<rl_config, user_tier, user_of, minute_buckets, hour_buckets, day_buckets, violations,
              banned_until, user_quotas, system_load, month_end, rl_last, rl_lock, rl_call, rl_done>>
ddosVars == <<ddos_config, request_log, blocked_ips, admitted, ddos_last>>

routerVars == <<mode, max_retries, base_config, models_config, pc, query, user_models,
                original_models_config, state, step, calls, selected, raised,
                response>>

clsVars == <<cls_pipe, cls_text, cls_result>>

\* the functions and services that are modelled on their own
costVars == <<cost_model, cost_in, cost_out, cost_result>>
ratingVars == <<ratings, ratings0, fb_log, sess, rt_sessions, rt_ops, rt_last>>
fallbackVars == <<fb_models, fb_keyed, fb_pc, fb_idx, fb_attempt, fb_http, fb_last_exception,
                  fb_result, fb_max_retries, fb_creds>>
apiVars == <<timeout_at, conv_saved>>
scriptVars == <<script>>
extVars == <<clsVars, costVars, ratingVars, fallbackVars, apiVars, scriptVars>>

\* the request path: process_query, its router and the guards in front of it
coreVars == <<now, routerVars, cacheVars, rateVars, ddosVars>>

\* what a step of one of these leaves alone
offClassifier == <<coreVars, costVars, ratingVars, fallbackVars, apiVars, scriptVars>>
offCost == <<coreVars, clsVars, ratingVars, fallbackVars, apiVars, scriptVars>>
offRating == <<coreVars, clsVars, costVars, fallbackVars, apiVars, scriptVars>>
offFallback == <<coreVars, clsVars, costVars, ratingVars, apiVars, scriptVars>>
offApi == <<coreVars, clsVars, costVars, ratingVars, fallbackVars, scriptVars>>

vars == <<routerVars, now, cacheVars, rateVars, ddosVars, extVars>>

\* the state of the components a Router step does not touch
offRouter == <<now, cacheVars, rateVars, ddosVars, extVars>>

(***************************************************************************)
(* RouterState                                                             *)
(***************************************************************************)
InitialState(q) ==
    [query |-> q, classification |-> None, model_tier |-> None,
     selected_model |-> NoModel, cache_hit |-> FALSE, cached_response |-> None,
     llm_response |-> None, used_model |-> NoModel, error |-> None,
     retry_count |-> 0]

NoCalls == [cache_get |-> 0, classifier |-> 0, select |-> 0, llm |-> 0,
            llm_failed |-> 0, cache_set |-> 0]

\* QueryResponse: the fields success, response, error, cache_hit
NoResponse == [success |-> FALSE, response |-> None, error |-> None,
               cache_hit |-> FALSE]

_map_classification_to_tier(classification) ==
    CASE classification = "S" -> "tier1"
      [] classification = "M" -> "tier2"
      [] classification = "A" -> "tier3"
      [] OTHER -> "tier1"

\* len(models) * MAX_RETRIES_PER_MODEL for the tier of a classification
MaxRetriesFor(config, classification) ==
    Len(config[_map_classification_to_tier(classification)]) * MAX_RETRIES_PER_MODEL

(***************************************************************************)
(* Workflow nodes as functions RouterState -> RouterState                  *)
(***************************************************************************)
\* cacheOutcome: "miss", "raise" or the cached text
check_cache(s, cacheOutcome) ==
    IF cacheOutcome # "miss"
    THEN [s EXCEPT !.cache_hit = TRUE, !.cached_response = cacheOutcome,
                   !.llm_response = cacheOutcome]
    ELSE [s EXCEPT !.cache_hit = FALSE]

\* clsOutcome: what classifier.classify_text does: a label or "raise"
classify_query(s, clsOutcome) ==
    IF s.query = "" THEN [s EXCEPT !.error = "No query provided for classification"]
    ELSE IF clsOutcome = "raise" THEN [s EXCEPT !.error = "Error in classify_query"]
    ELSE IF clsOutcome \notin {"S", "M", "A"} THEN [s EXCEPT !.error = "Invalid classification"]
    ELSE [s EXCEPT !.classification = clsOutcome, !.error = None]

\* lines 144-149: select_model stops at the budget
select_model_unbounded(s, config) ==
    IF s.classification = None THEN [s EXCEPT !.error = "No classification available"]
    ELSE LET tier_key == _map_classification_to_tier(s.classification)
             models == config[tier_key]
         IN IF models = << >> THEN [s EXCEPT !.error = "No models available"]
            ELSE [s EXCEPT !.model_tier = tier_key,
                           !.selected_model = models[(s.retry_count % Len(models)) + 1],
                           !.retry_count = s.retry_count + 1,
                           !.error = None]

select_model(s, config) ==
    IF s.classification = None THEN [s EXCEPT !.error = "No classification available"]
    ELSE LET tier_key == _map_classification_to_tier(s.classification)
             models == config[tier_key]
         IN IF models = << >> THEN [s EXCEPT !.error = "No models available"]
            ELSE IF s.retry_count >= Len(models) * MAX_RETRIES_PER_MODEL
                 THEN [s EXCEPT !.error = "Max retries exceeded for tier"]
            ELSE [s EXCEPT !.model_tier = tier_key,
                           !.selected_model = models[(s.retry_count % Len(models)) + 1],
                           !.retry_count = s.retry_count + 1,
                           !.error = None]

\* TRUE when select_model picked a candidate (it returned through state.update)
Selects(s, config) ==
    /\ s.classification # None
    /\ config[_map_classification_to_tier(s.classification)] # << >>
    /\ s.retry_count < MaxRetriesFor(config, s.classification)

\* llmOutcome: "ok" (a non-empty result), "empty" (a falsy result), "fail" (call raises)
call_llm(s, llmOutcome) ==
    IF s.selected_model = NoModel THEN [s EXCEPT !.error = "No model selected for LLM call"]
    ELSE CASE llmOutcome = "ok" -> [s EXCEPT !.llm_response = "resp", !.used_model = s.selected_model]
           [] llmOutcome = "empty" -> [s EXCEPT !.llm_response = "", !.used_model = s.selected_model]
           [] OTHER -> [s EXCEPT !.error = "backend error"]

\* conditional edges
should_use_cache_always_classify(s) == "classify"

should_use_cache(s) == IF s.cache_hit THEN "use_cache" ELSE "classify"

handle_llm_response(s, config) ==
    IF Truthy(s.llm_response) THEN "success"
    ELSE IF s.retry_count >= MaxRetriesFor(config, s.classification) THEN "error"
    ELSE IF Truthy(s.error) THEN "retry"
    ELSE "error"

should_retry(s, config) ==
    IF s.retry_count < MaxRetriesFor(config, s.classification) THEN "retry" ELSE "fail"

(***************************************************************************)
(* DynamicLLMRouter.process_query and Router.route, one thread per query   *)
(***************************************************************************)
_create_error_response(error) ==
    [success |-> FALSE, response |-> "", error |-> error, cache_hit |-> FALSE]

\* the QueryResponse built from the final RouterState when route returns
QueryResponseOf(result) ==
    [success |-> TRUE,
     response |-> Str(PyOr(result.llm_response, result.cached_response)),
     error |-> result.error,
     cache_hit |-> result.cache_hit]

Running(t) == pc[t] \notin {"idle", "done"}

\* The workflow engine counts supersteps; the entry superstep is index 0 and
\* the node about to run has index step[t].  After a superstep the engine
\* stops with GraphRecursionError when the next index exceeds the limit,
\* before it looks for the next node.
AfterNode(t, target) ==
    IF step[t] + 1 > WORKFLOW_RECURSION_LIMIT THEN "raise" ELSE target

RaisedAfterNode(t, target) ==
    IF step[t] + 1 > WORKFLOW_RECURSION_LIMIT THEN "Recursion limit reached" ELSE raised[t]

\* inputs explored: with parallel queries only non-empty queries that the
\* classifier labels S, M or A
\* mode "equiv": Router.route (query A) and SimpleRouter.route (query B) get
\* the same arguments and the same collaborator behaviour: what cache.get
\* does, what classify_text does, and what the k-th backend call does (the
\* calls after the last scripted one behave like the last)
NoScript == [query |-> "", user_models |-> NoUserModels, cache |-> "miss", cls |-> "S",
             llm |-> << >>]
ScriptedLlm(t) == script.llm[IF calls[t].llm + 1 < Len(script.llm) THEN calls[t].llm + 1
                             ELSE Len(script.llm)]

QueryChoices ==
    CASE mode = "conc" -> Queries \ {""}
      [] mode = "single" -> Queries \cup BlankQueries
      [] mode = "equiv" -> {script.query}
      [] OTHER -> Queries
CacheOutcomes == IF mode = "equiv" THEN {script.cache} ELSE {"miss", "raise", "cached"}
UserModelsFor(t) == IF mode = "equiv" THEN {script.user_models} ELSE UserModelChoices(t)
ClsOutcomes ==
    CASE mode = "conc" -> {"S", "M", "A"}
      [] mode = "equiv" -> {script.cls}
      [] OTHER -> {"S", "M", "A", "X", "raise"}

\* process_query up to the call of router.route: admission is decided by the
\* DDoS guard and the rate limiter (modelled in SpecDDoS and SpecRate)
\* outcomes of the DDoS guard and the rate limiter for one request
AdmissionOutcomes == {"allow", "ddos", "rate"}

\* the reason string of a denial, as process_query passes it on
DenialReason(adm) == IF adm = "ddos" THEN "Too many requests" ELSE "Rate limit exceeded"

\* process_query lines 302-331: a denial returns at once, otherwise the try block follows
AfterAdmission_route(adm) == "route"

AfterAdmission(adm) == IF adm = "allow" THEN "route" ELSE "responded"

AdmissionsFor(t) == IF mode = "equiv" THEN {"allow"} ELSE AdmissionOutcomes

PQ_Begin(t) ==
    /\ pc[t] = "idle"
    /\ mode \in {"seq", "conc", "single", "equiv"}
    /\ mode = "single" => t = "A"
    /\ mode = "equiv" => t = "A" /\ pc["B"] = "s_return"
    /\ mode = "seq" => /\ \A u \in Threads \ {t} : ~Running(u)
                       /\ t = "B" => pc["A"] = "done"
    /\ \E q \in QueryChoices, um \in UserModelsFor(t), adm \in AdmissionsFor(t) :
         /\ query' = [query EXCEPT ![t] = q]
         /\ user_models' = [user_models EXCEPT ![t] = um]
         /\ pc' = [pc EXCEPT ![t] = AfterAdmission(adm)]
         /\ IF adm = "allow"
            THEN UNCHANGED response
            ELSE response' = [response EXCEPT ![t] = _create_error_response(DenialReason(adm))]
    /\ UNCHANGED <<offRouter, mode, max_retries, base_config, models_config, original_models_config,
                   state, step, calls, selected, raised>>

\* route: original_models_config = self.models_config.copy()
Route(t) ==
    /\ pc[t] = "route"
    /\ original_models_config' = [original_models_config EXCEPT ![t] = models_config]
    /\ pc' = [pc EXCEPT ![t] = IF HasUserModels(user_models[t]) THEN "merge_tier1" ELSE "invoke"]
    /\ UNCHANGED <<offRouter, mode, max_retries, base_config, models_config, query, user_models,
                   state, step, calls, selected, raised, response>>

\* route: one iteration of `for tier in [tier1, tier2, tier3]`
Merge(t) ==
    \E i \in 1..3 :
      /\ pc[t] = "merge_" \o TierOrder[i]
      /\ LET tier == TierOrder[i]
             ids == user_models[t].ids[tier]
         IN models_config' = IF ids # << >>
                             THEN [models_config EXCEPT ![tier] = ids \o models_config[tier]]
                             ELSE models_config
      /\ pc' = [pc EXCEPT ![t] = IF i < 3 THEN "merge_" \o TierOrder[i + 1] ELSE "invoke"]
      /\ UNCHANGED <<offRouter, mode, max_retries, base_config, query, user_models, original_models_config,
                     state, step, calls, selected, raised, response>>

\* route: initial_state and workflow.invoke; the entry superstep is index 0
Invoke(t) ==
    /\ pc[t] = "invoke"
    /\ state' = [state EXCEPT ![t] = InitialState(query[t])]
    /\ step' = [step EXCEPT ![t] = 1]
    /\ pc' = [pc EXCEPT ![t] = "check_cache"]
    /\ UNCHANGED <<offRouter, mode, max_retries, base_config, models_config, query, user_models,
                   original_models_config, calls, selected, raised, response>>

\* node check_cache and edge should_use_cache; cache.get may raise
CheckCacheNode(t) ==
    /\ pc[t] = "check_cache"
    /\ calls' = [calls EXCEPT ![t].cache_get = @ + 1]
    /\ \E cacheOutcome \in CacheOutcomes :
         IF cacheOutcome = "raise"
         THEN /\ pc' = [pc EXCEPT ![t] = "raise"]
              /\ raised' = [raised EXCEPT ![t] = "cache error"]
              /\ UNCHANGED <<state, step>>
         ELSE /\ state' = [state EXCEPT ![t] = check_cache(state[t], cacheOutcome)]
              /\ step' = [step EXCEPT ![t] = @ + 1]
              /\ pc' = [pc EXCEPT ![t] = AfterNode(t,
                          IF should_use_cache(state'[t]) = "use_cache" THEN "END"
                          ELSE "classify_query")]
              /\ raised' = [raised EXCEPT ![t] = RaisedAfterNode(t, "")]
    /\ UNCHANGED <<offRouter, mode, max_retries, base_config, models_config, query, user_models,
                   original_models_config, selected, response>>

\* node classify_query, then the plain edge to select_model
ClassifyNode(t) ==
    /\ pc[t] = "classify_query"
    /\ \E clsOutcome \in ClsOutcomes :
         state' = [state EXCEPT ![t] = classify_query(state[t], clsOutcome)]
    /\ calls' = [calls EXCEPT ![t].classifier = IF state[t].query = "" THEN @ ELSE @ + 1]
    /\ step' = [step EXCEPT ![t] = @ + 1]
    /\ pc' = [pc EXCEPT ![t] = AfterNode(t, "select_model")]
    /\ raised' = [raised EXCEPT ![t] = RaisedAfterNode(t, "")]
    /\ UNCHANGED <<offRouter, mode, max_retries, base_config, models_config, query, user_models,
                   original_models_config, selected, response>>

\* node select_model, then the plain edge to call_llm
SelectNode(t) ==
    /\ pc[t] = "select_model"
    /\ state' = [state EXCEPT ![t] = select_model(state[t], models_config)]
    /\ IF Selects(state[t], models_config)
       THEN /\ calls' = [calls EXCEPT ![t].select = @ + 1]
            /\ selected' = [selected EXCEPT ![t] = Append(@,
                   state[t].retry_count %
                     Len(models_config[_map_classification_to_tier(state[t].classification)]))]
       ELSE UNCHANGED <<calls, selected>>
    /\ step' = [step EXCEPT ![t] = @ + 1]
    /\ pc' = [pc EXCEPT ![t] = AfterNode(t, "call_llm")]
    /\ raised' = [raised EXCEPT ![t] = RaisedAfterNode(t, "")]
    /\ UNCHANGED <<offRouter, mode, max_retries, base_config, models_config, query, user_models,
                   original_models_config, response>>

\* results of llm_client.call explored: with parallel queries the falsy
\* result is left out
LlmOutcomes == IF mode = "conc" THEN {"ok", "fail"} ELSE {"ok", "empty", "fail"}
LlmOutcomesFor(t) == IF mode = "equiv" THEN {ScriptedLlm(t)} ELSE LlmOutcomes

\* node call_llm and edge handle_llm_response
CallNode(t) ==
    /\ pc[t] = "call_llm"
    /\ \E llmOutcome \in LlmOutcomesFor(t) :
         /\ state' = [state EXCEPT ![t] = call_llm(state[t], llmOutcome)]
         /\ calls' = IF state[t].selected_model = NoModel THEN calls
                     ELSE [calls EXCEPT ![t].llm = @ + 1,
                                        ![t].llm_failed = IF llmOutcome = "fail" THEN @ + 1 ELSE @]
    /\ step' = [step EXCEPT ![t] = @ + 1]
    /\ LET edge == handle_llm_response(state'[t], models_config)
       IN pc' = [pc EXCEPT ![t] = AfterNode(t,
                   CASE edge = "success" -> "store_in_cache"
                     [] edge = "retry" -> "select_model"
                     [] OTHER -> "handle_error")]
    /\ raised' = [raised EXCEPT ![t] = RaisedAfterNode(t, "")]
    /\ UNCHANGED <<offRouter, mode, max_retries, base_config, models_config, query, user_models,
                   original_models_config, selected, response>>

\* node handle_error and edge should_retry
HandleErrorNode(t) ==
    /\ pc[t] = "handle_error"
    /\ step' = [step EXCEPT ![t] = @ + 1]
    /\ pc' = [pc EXCEPT ![t] = AfterNode(t,
                IF should_retry(state[t], models_config) = "retry" THEN "select_model"
                ELSE "END")]
    /\ raised' = [raised EXCEPT ![t] = RaisedAfterNode(t, "")]
    /\ UNCHANGED <<offRouter, mode, max_retries, base_config, models_config, query, user_models,
                   original_models_config, state, calls, selected, response>>

\* node store_in_cache, then the plain edge to END; an exception of
\* cache.set is caught, so both outcomes of the call leave the state alone
StoreNode(t) ==
    /\ pc[t] = "store_in_cache"
    /\ calls' = IF Truthy(state[t].llm_response) /\ ~state[t].cache_hit
                THEN [calls EXCEPT ![t].cache_set = @ + 1] ELSE calls
    /\ step' = [step EXCEPT ![t] = @ + 1]
    /\ pc' = [pc EXCEPT ![t] = AfterNode(t, "END")]
    /\ raised' = [raised EXCEPT ![t] = RaisedAfterNode(t, "")]
    /\ UNCHANGED <<offRouter, mode, max_retries, base_config, models_config, query, user_models,
                   original_models_config, state, selected, response>>

\* route after workflow.invoke returned: restore models_config, return result
RouteReturn(t) ==
    /\ pc[t] = "END"
    /\ models_config' = IF HasUserModels(user_models[t]) THEN original_models_config[t]
                        ELSE models_config
    /\ pc' = [pc EXCEPT ![t] = "respond"]
    /\ UNCHANGED <<offRouter, mode, max_retries, base_config, query, user_models, original_models_config,
                   state, step, calls, selected, raised, response>>

\* The locals of route and of the workflow run die when process_query returns
Discard(t) ==
    /\ query' = [query EXCEPT ![t] = ""]
    /\ user_models' = [user_models EXCEPT ![t] = NoUserModels]
    /\ original_models_config' = [original_models_config EXCEPT ![t] = EmptyTiers]
    /\ state' = [state EXCEPT ![t] = InitialState("")]
    /\ step' = [step EXCEPT ![t] = 0]
    /\ calls' = [calls EXCEPT ![t] = NoCalls]
    /\ selected' = [selected EXCEPT ![t] = << >>]
    /\ raised' = [raised EXCEPT ![t] = None]

\* process_query after route returned: the QueryResponse of the try block
PQ_Respond(t) ==
    /\ pc[t] = "respond"
    /\ response' = [response EXCEPT ![t] = QueryResponseOf(state[t])]
    /\ pc' = [pc EXCEPT ![t] = "responded"]
    /\ Discard(t)
    /\ UNCHANGED <<offRouter, mode, max_retries, base_config, models_config>>

\* an exception left workflow.invoke: route is left without the restore and
\* process_query answers from its except block
PQ_Except(t) ==
    /\ pc[t] = "raise"
    /\ response' = [response EXCEPT ![t] = _create_error_response(raised[t])]
    /\ pc' = [pc EXCEPT ![t] = "responded"]
    /\ Discard(t)
    /\ UNCHANGED <<offRouter, mode, max_retries, base_config, models_config>>

\* the caller of process_query has taken the QueryResponse
PQ_Return(t) ==
    /\ pc[t] = "responded"
    /\ response' = [response EXCEPT ![t] = NoResponse]
    /\ pc' = [pc EXCEPT ![t] = "done"]
    /\ UNCHANGED <<offRouter, mode, max_retries, base_config, models_config, query, user_models,
                   original_models_config, state, step, calls, selected, raised>>

(***************************************************************************)
(* SimpleRouter.route: the same node functions, driven by a plain loop.    *)
(* The run uses thread "A"; its final state stays at pc = "s_return".      *)
(***************************************************************************)
\* values of the constructor argument max_retries explored
MaxRetriesChoices == {2, MAX_RETRIES_PER_MODEL, 4}

\* max_attempts = len(models) * self.max_retries if models else 0
MaxAttempts(s, config) ==
    Len(config[_map_classification_to_tier(s.classification)]) * max_retries

\* route: the initial state
S_Route(t) ==
    /\ (mode = "simple" /\ t = "A") \/ (mode = "equiv" /\ t = "B")
    /\ pc[t] = "idle"
    /\ \E q \in QueryChoices :
         /\ query' = [query EXCEPT ![t] = q]
         /\ state' = [state EXCEPT ![t] = InitialState(q)]
    /\ pc' = [pc EXCEPT ![t] = "s_check_cache"]
    /\ UNCHANGED <<offRouter, mode, max_retries, base_config, models_config, user_models,
                   original_models_config, step, calls, selected, raised, response>>

\* Step 1: check_cache, whose try/except turns an exception of cache.get
\* into a miss; a hit returns
S_CheckCache(t) ==
    /\ pc[t] = "s_check_cache"
    /\ calls' = [calls EXCEPT ![t].cache_get = @ + 1]
    /\ \E cacheOutcome \in CacheOutcomes :
         state' = [state EXCEPT ![t] =
                     check_cache(state[t], IF cacheOutcome = "raise" THEN "miss" ELSE cacheOutcome)]
    /\ pc' = [pc EXCEPT ![t] = IF state'[t].cache_hit THEN "s_return" ELSE "s_classify_query"]
    /\ UNCHANGED <<offRouter, mode, max_retries, base_config, models_config, query, user_models,
                   original_models_config, step, selected, raised, response>>

\* Step 2: classify_query; an error returns
S_Classify(t) ==
    /\ pc[t] = "s_classify_query"
    /\ \E clsOutcome \in ClsOutcomes :
         state' = [state EXCEPT ![t] = classify_query(state[t], clsOutcome)]
    /\ calls' = [calls EXCEPT ![t].classifier = IF state[t].query = "" THEN @ ELSE @ + 1]
    /\ pc' = [pc EXCEPT ![t] = IF Truthy(state'[t].error) THEN "s_return" ELSE "s_loop"]
    /\ UNCHANGED <<offRouter, mode, max_retries, base_config, models_config, query, user_models,
                   original_models_config, step, selected, raised, response>>

\* Step 3: the loop test, select_model and the break on "Max retries"
S_Loop(t) ==
    /\ pc[t] = "s_loop"
    /\ IF state[t].retry_count < MaxAttempts(state[t], models_config)
       THEN /\ state' = [state EXCEPT ![t] = select_model(state[t], models_config)]
            /\ IF Selects(state[t], models_config)
               THEN /\ calls' = [calls EXCEPT ![t].select = @ + 1]
                    /\ selected' = [selected EXCEPT ![t] = Append(@,
                          state[t].retry_count %
                            Len(models_config[_map_classification_to_tier(state[t].classification)]))]
               ELSE UNCHANGED <<calls, selected>>
            /\ pc' = [pc EXCEPT ![t] =
                        IF state'[t].error = "Max retries exceeded for tier" THEN "s_return"
                        ELSE "s_call_llm"]
       ELSE /\ pc' = [pc EXCEPT ![t] = "s_return"]
            /\ UNCHANGED <<state, calls, selected>>
    /\ UNCHANGED <<offRouter, mode, max_retries, base_config, models_config, query, user_models,
                   original_models_config, step, raised, response>>

\* call_llm and the success test of the loop body
S_Call(t) ==
    /\ pc[t] = "s_call_llm"
    /\ \E llmOutcome \in LlmOutcomesFor(t) :
         /\ state' = [state EXCEPT ![t] = call_llm(state[t], llmOutcome)]
         /\ calls' = IF state[t].selected_model = NoModel THEN calls
                     ELSE [calls EXCEPT ![t].llm = @ + 1,
                                        ![t].llm_failed = IF llmOutcome = "fail" THEN @ + 1 ELSE @]
    /\ pc' = [pc EXCEPT ![t] =
                IF Truthy(state'[t].llm_response) /\ ~Truthy(state'[t].error)
                THEN "s_store_in_cache" ELSE "s_loop"]
    /\ UNCHANGED <<offRouter, mode, max_retries, base_config, models_config, query, user_models,
                   original_models_config, step, selected, raised, response>>

\* store_in_cache, then return
S_Store(t) ==
    /\ pc[t] = "s_store_in_cache"
    /\ calls' = IF Truthy(state[t].llm_response) /\ ~state[t].cache_hit
                THEN [calls EXCEPT ![t].cache_set = @ + 1] ELSE calls
    /\ pc' = [pc EXCEPT ![t] = "s_return"]
    /\ UNCHANGED <<offRouter, mode, max_retries, base_config, models_config, query, user_models,
                   original_models_config, state, step, selected, raised, response>>

(***************************************************************************)
(* ConversationCache (src/conversation_cache.py).                          *)
(*                                                                         *)
(* The sentence encoder is a library: the model keeps of it that equal     *)
(* texts get equal embeddings, different texts different ones, and that    *)
(* all embeddings have the same norm.                                      *)
(* Embeddings are integer vectors of squared norm NormSq; similarities     *)
(* and thresholds are counted in hundredths.                               *)
(***************************************************************************)
DEFAULT_THRESHOLD == 50
DEFAULT_TTL == 3600
NormSq == 25

CacheQueries == {"hello", "hi"}

Embed(q) == IF q = "hello" THEN <<5, 0>> ELSE <<4, 3>>

cosine_similarity(a, b) == ((a[1] * b[1] + a[2] * b[2]) * 100) \div NormSq

\* the responses handed to set: a string, a dict with a 'response' key, a dict without
CacheResponses ==
    { [kind |-> "str", text |-> "r1"],
      [kind |-> "dict", text |-> "r1"],
      [kind |-> "other", text |-> "r2"] }

\* set, lines 102-108: the text that is stored for a response
ResponseText(r) ==
    CASE r.kind = "str" -> r.text
      [] r.kind = "dict" -> r.text
      [] OTHER -> "str(" \o r.text \o ")"

ThresholdChoices == {None, "100"}
ThresholdOf(th) == IF th = None THEN DEFAULT_THRESHOLD ELSE 100

TtlChoices == {None, "1"}
TtlOf(ttl) == IF ttl = None THEN DEFAULT_TTL ELSE 1

_cleanup_keeps_all(c, t) == c

_cleanup(c, t) == SelectSeq(c, LAMBDA item : t - item.timestamp <= item.ttl)

SeqMax(sims) == CHOOSE m \in {sims[i] : i \in DOMAIN sims} : \A i \in DOMAIN sims : sims[i] <= m

\* np.argmax: the first index of the maximum
argmax_last(sims) == CHOOSE i \in DOMAIN sims : sims[i] = SeqMax(sims) /\ \A j \in DOMAIN sims : sims[j] = SeqMax(sims) => j <= i

argmax(sims) == CHOOSE i \in DOMAIN sims : sims[i] = SeqMax(sims) /\ \A j \in DOMAIN sims : sims[j] = SeqMax(sims) => i <= j

NoGet == [done |-> FALSE]

\* get(query, threshold) on the pruned list c: the index it answers from, 0 for None
BestIdx(c, q, th) ==
    IF c = << >> THEN 0
    ELSE LET sims == [i \in DOMAIN c |-> cosine_similarity(Embed(q), c[i].embedding)]
             best_idx == argmax(sims)
         IN IF sims[best_idx] >= ThresholdOf(th) THEN best_idx ELSE 0

NoOp == [op |-> "none", query |-> ""]

CacheGet(q, th) ==
    \E c \in {_cleanup(cache, now)} : \E idx \in {BestIdx(c, q, th)} :
       /\ cache' = c
       /\ got' = [done |-> TRUE, query |-> q, threshold |-> th,
                  result |-> IF idx = 0 THEN None ELSE c[idx].response,
                  entry |-> idx,
                  after_set |-> last_op = [op |-> "set", query |-> q],
                  expired_match |-> \E i \in DOMAIN cache :
                                       /\ cache[i].embedding = Embed(q)
                                       /\ now - cache[i].timestamp > cache[i].ttl]
       /\ last_op' = [op |-> "get", query |-> q]
       /\ UNCHANGED <<now, routerVars, extVars, rateVars, ddosVars>>

CacheSet(q, r, ttl) ==
    /\ Len(cache) < MaxCacheLen
    /\ cache' = Append(cache, [embedding |-> Embed(q), response |-> ResponseText(r),
                               timestamp |-> now, ttl |-> TtlOf(ttl)])
    /\ got' = NoGet
    /\ last_op' = [op |-> "set", query |-> q]
    /\ UNCHANGED <<now, routerVars, extVars, rateVars, ddosVars>>

CacheTick ==
    /\ now < MaxCacheNow
    /\ now' = now + 1
    /\ got' = NoGet
    /\ last_op' = [op |-> "tick", query |-> ""]
    /\ UNCHANGED <<cache, routerVars, extVars, rateVars, ddosVars>>

CacheIdle ==
    /\ cache = << >>
    /\ last_op = NoOp
    /\ got = NoGet

(***************************************************************************)
(* RateLimiter (src/rate_limiter.py).  check_rate_limit runs under         *)
(* self._lock, so one call is one step.  The clock starts at midnight and  *)
(* the runs explored stay within that day; month_end tells whether that    *)
(* day is the last day of its month.  record_system_load has no caller in  *)
(* the repository: system_load stays empty.  The calls of one identifier   *)
(* all pass the same user_id, user_of[identifier], and the tier of the     *)
(* DynamicLLMRouter that owns the limiter; RL_SetTier is the API endpoint  *)
(* that changes that tier between two calls.                               *)
(***************************************************************************)
Identifiers == {"ip1"}
UserIds == {None, "u1"}
RateTiers == {"free", "basic"}

tier_limits ==
    [free |-> [daily |-> 100, hourly |-> 10, minute |-> 5],
     basic |-> [daily |-> 1000, hourly |-> 100, minute |-> 20],
     premium |-> [daily |-> 10000, hourly |-> 500, minute |-> 50],
     enterprise |-> [daily |-> 100000, hourly |-> 5000, minute |-> 200]]

\* self.tier_limits.get(tier, self.tier_limits["free"])
LimitsOf(tier) == IF tier \in DOMAIN tier_limits THEN tier_limits[tier] ELSE tier_limits["free"]

RateLimitConfig == [ban_threshold |-> 5, ban_duration |-> 3600, enable_adaptive |-> TRUE]

RateConfigs == {RateLimitConfig, [ban_threshold |-> 2, ban_duration |-> 60, enable_adaptive |-> FALSE]}

NotBanned == -1
NoQuota == [exists |-> FALSE]

\* the clock advances by Ticks; TicksTaken counts the advances made so far
Ticks == {31, 3601}
TicksTaken(t) == (t \div 3601) + ((t % 3601) \div 31)

\* the requests of bucket b that are inside the window of w seconds at time t
LiveCount(b, t, w) == Cardinality({i \in DOMAIN b : t - b[i] <= w})

RECURSIVE PopOld(_, _, _)
\* one while loop of _cleanup_buckets
PopOld(b, t, w) == IF b # << >> /\ t - Head(b) > w THEN PopOld(Tail(b), t, w) ELSE b

_record_violation_no_ban(rl, t) == [rl EXCEPT !.violations = @ + 1]

_record_violation(rl, t) ==
    LET v == rl.violations + 1
    IN [rl EXCEPT !.violations = v,
                  !.banned_until = IF v >= rl_config.ban_threshold
                                   THEN t + rl_config.ban_duration ELSE @]

\* datetime arithmetic of _get_next_reset_time: the next midnight, or "ValueError"
\* when replace(day = day + 1) leaves the month
_get_next_reset_time(t) == IF month_end THEN "ValueError" ELSE ((t \div 86400) + 1) * 86400

\* _check_user_quota: <<ok, message, quota>>
_check_user_quota(quota, tier, t) ==
    IF quota = NoQuota /\ month_end THEN <<FALSE, "ValueError", quota>>
    ELSE LET q0 == IF quota = NoQuota
                   THEN [exists |-> TRUE, daily_limit |-> tier_limits[tier].daily,
                         used_today |-> 0, reset_time |-> _get_next_reset_time(t)]
                   ELSE quota
         IN IF t >= q0.reset_time /\ month_end THEN <<FALSE, "ValueError", q0>>
            ELSE LET q1 == IF t >= q0.reset_time
                           THEN [q0 EXCEPT !.used_today = 0,
                                           !.reset_time = _get_next_reset_time(t)]
                           ELSE q0
                 IN IF q1.used_today >= q1.daily_limit
                    THEN <<FALSE, "Daily quota exceeded", q1>>
                    ELSE <<TRUE, None, q1>>

RECURSIVE SeqSum(_)
SeqSum(s) == IF s = << >> THEN 0 ELSE Head(s) + SeqSum(Tail(s))

\* _check_adaptive_throttle, loads in hundredths
_check_adaptive_throttle ==
    IF system_load = << >> THEN TRUE
    ELSE ~(SeqSum(system_load) > 80 * Len(system_load))

\* the state of one identifier, as check_rate_limit reads and writes it
RateState(id, uid) ==
    [minute |-> minute_buckets[id], hour |-> hour_buckets[id], day |-> day_buckets[id],
     violations |-> violations[id], banned_until |-> banned_until[id],
     quota |-> IF uid = None THEN NoQuota ELSE user_quotas[uid],
     outcome |-> "allowed", reason |-> None]

\* lines 108-109: the identifier is banned and the ban has not run out
BanActive_never(rl, t) == FALSE

BanActive(rl, t) == rl.banned_until # NotBanned /\ t < rl.banned_until

\* lines 112-115: a ban that has run out is lifted
Unban(rl, t) ==
    IF rl.banned_until # NotBanned /\ ~(t < rl.banned_until)
    THEN [rl EXCEPT !.banned_until = NotBanned, !.violations = 0]
    ELSE rl

_cleanup_buckets(rl, t) ==
    [rl EXCEPT !.minute = PopOld(@, t, 60), !.hour = PopOld(@, t, 3600),
               !.day = PopOld(@, t, 86400)]

Denied(rl, reason) == [rl EXCEPT !.outcome = "denied", !.reason = reason]

\* lines 141-161, after the three window checks passed
AfterWindows(rl, uid, tier, t) ==
    LET qr == IF Truthy(uid) THEN _check_user_quota(rl.quota, tier, t)
              ELSE <<TRUE, None, rl.quota>>
        rq == [rl EXCEPT !.quota = qr[3]]
    IN IF qr[2] = "ValueError" THEN [rl EXCEPT !.outcome = "raised", !.reason = "ValueError"]
       ELSE IF ~qr[1] THEN Denied(rq, qr[2])
       ELSE IF rl_config.enable_adaptive /\ ~_check_adaptive_throttle
            THEN Denied(rq, "System is experiencing high load")
       ELSE [rq EXCEPT !.minute = Append(@, t), !.hour = Append(@, t), !.day = Append(@, t),
                       !.quota = IF Truthy(uid) /\ @ # NoQuota
                                 THEN [@ EXCEPT !.used_today = @ + 1] ELSE @]

\* check_rate_limit(identifier, user_id, tier) at time t: the state it leaves
check_rate_limit(rl0, uid, tier, t) ==
    IF BanActive(rl0, t) THEN Denied(rl0, "Temporarily banned")
    ELSE LET rl == _cleanup_buckets(Unban(rl0, t), t)
             limits == LimitsOf(tier)
         IN IF Len(rl.minute) >= limits.minute
            THEN Denied(_record_violation(rl, t), "Rate limit exceeded: per minute")
            ELSE IF Len(rl.hour) >= limits.hourly
            THEN Denied(_record_violation(rl, t), "Rate limit exceeded: per hour")
            ELSE IF Len(rl.day) >= limits.daily
            THEN Denied(_record_violation(rl, t), "Daily quota exceeded: per day")
            ELSE AfterWindows(rl, uid, tier, t)

\* get_rate_limit_headers(identifier, tier): the remaining-count values
get_rate_limit_headers(id, tier) ==
    [remaining_minute |-> tier_limits[tier].minute - Len(minute_buckets[id]),
     remaining_hour |-> tier_limits[tier].hourly - Len(hour_buckets[id]),
     remaining_day |-> tier_limits[tier].daily - Len(day_buckets[id])]

NoCheck == [done |-> FALSE, outcome |-> "none"]

RL_Check(id) ==
    \E uid \in {user_of[id]} : \E rl0 \in {RateState(id, uid)} :
    \E rl \in {check_rate_limit(rl0, uid, user_tier, now)} :
       /\ minute_buckets' = [minute_buckets EXCEPT ![id] = rl.minute]
       /\ hour_buckets' = [hour_buckets EXCEPT ![id] = rl.hour]
       /\ day_buckets' = [day_buckets EXCEPT ![id] = rl.day]
       /\ violations' = [violations EXCEPT ![id] = rl.violations]
       /\ banned_until' = [banned_until EXCEPT ![id] = rl.banned_until]
       /\ user_quotas' = IF uid = None THEN user_quotas
                         ELSE [user_quotas EXCEPT ![uid] = rl.quota]
       /\ rl_last' = [done |-> TRUE, identifier |-> id, user_id |-> uid, tier |-> user_tier,
                      outcome |-> rl.outcome, reason |-> rl.reason,
                      minute_before |-> LiveCount(rl0.minute, now, 60),
                      hour_before |-> LiveCount(rl0.hour, now, 3600),
                      day_before |-> LiveCount(rl0.day, now, 86400),
                      violations_before |-> Unban(rl0, now).violations,
                      ban_before |-> rl0.banned_until,
                      at |-> now]
       /\ UNCHANGED <<now, rl_config, user_tier, user_of, month_end, system_load, rl_lock, rl_call, rl_done,
                      routerVars, extVars, cacheVars, ddosVars>>

\* check_rate_limit called by concurrent workers on one RateLimiter, a step per
\* lock operation and per read or write of the shared counters
RateWorkers == {"w1", "w2"}

IdleCall == [pc |-> "idle", identifier |-> None, at |-> 0, outcome |-> "none", reason |-> None,
             violations |-> 0, banned_until |-> NotBanned, quota |-> NoQuota]

NoneDone == [admitted |-> 0, violations |-> 0]

RateWorkersIdle ==
    /\ rl_lock = None
    /\ rl_call = [w \in RateWorkers |-> IdleCall]
    /\ rl_done = [id \in Identifiers |-> NoneDone]

WindowDenials ==
    {"Rate limit exceeded: per minute", "Rate limit exceeded: per hour",
     "Daily quota exceeded: per day"}

\* line 89: a worker enters check_rate_limit and waits for the lock
RC_Call(w, id) ==
    /\ rl_call[w].pc = "idle"
    /\ rl_call' = [rl_call EXCEPT ![w] = [IdleCall EXCEPT !.pc = "waiting", !.identifier = id]]
    /\ UNCHANGED <<now, rl_config, user_tier, user_of, month_end, system_load, minute_buckets,
                   hour_buckets, day_buckets, violations, banned_until, user_quotas, rl_last,
                   rl_lock, rl_done, routerVars, extVars, cacheVars, ddosVars>>

\* line 104: with self._lock lets one worker in at a time
LockFree_always == TRUE

LockFree == rl_lock = None

RC_Acquire(w) ==
    /\ rl_call[w].pc = "waiting"
    /\ LockFree
    /\ rl_lock' = w
    /\ rl_call' = [rl_call EXCEPT ![w].pc = "locked"]
    /\ UNCHANGED <<now, rl_config, user_tier, user_of, month_end, system_load, minute_buckets,
                   hour_buckets, day_buckets, violations, banned_until, user_quotas, rl_last,
                   rl_done, routerVars, extVars, cacheVars, ddosVars>>

\* lines 105-152: the clock is read, a ban that ran out is lifted, the buckets are
\* cleaned and the counters are read and compared with the limits
RC_Check(w) ==
    /\ rl_call[w].pc = "locked"
    /\ \E id \in {rl_call[w].identifier} : \E uid \in {user_of[id]} :
       \E rl0 \in {RateState(id, uid)} :
       \E rl \in {check_rate_limit(rl0, uid, user_tier, now)} :
       \E cl \in {IF BanActive(rl0, now) THEN rl0 ELSE _cleanup_buckets(Unban(rl0, now), now)} :
          /\ minute_buckets' = [minute_buckets EXCEPT ![id] = cl.minute]
          /\ hour_buckets' = [hour_buckets EXCEPT ![id] = cl.hour]
          /\ day_buckets' = [day_buckets EXCEPT ![id] = cl.day]
          /\ violations' = [violations EXCEPT ![id] = cl.violations]
          /\ banned_until' = [banned_until EXCEPT ![id] = cl.banned_until]
          /\ rl_done' = [rl_done EXCEPT ![id].violations =
                            IF cl.violations = rl0.violations THEN @ ELSE 0]
          /\ rl_call' = [rl_call EXCEPT ![w] =
                            [pc |-> "checked", identifier |-> id, at |-> now,
                             outcome |-> rl.outcome, reason |-> rl.reason,
                             violations |-> rl.violations, banned_until |-> rl.banned_until,
                             quota |-> rl.quota]]
    /\ UNCHANGED <<now, rl_config, user_tier, user_of, month_end, system_load, user_quotas,
                   rl_last, rl_lock, routerVars, extVars, cacheVars, ddosVars>>

\* lines 123-161: the violation or the admitted request is written, the call
\* returns and the with block releases the lock
RC_Record(w) ==
    /\ rl_call[w].pc = "checked"
    /\ \E c \in {rl_call[w]} : \E id \in {c.identifier} : \E uid \in {user_of[id]} :
          /\ minute_buckets' = [minute_buckets EXCEPT ![id] =
                                   IF c.outcome = "allowed" THEN Append(@, c.at) ELSE @]
          /\ hour_buckets' = [hour_buckets EXCEPT ![id] =
                                 IF c.outcome = "allowed" THEN Append(@, c.at) ELSE @]
          /\ day_buckets' = [day_buckets EXCEPT ![id] =
                                IF c.outcome = "allowed" THEN Append(@, c.at) ELSE @]
          /\ violations' = [violations EXCEPT ![id] =
                               IF c.reason \in WindowDenials THEN c.violations ELSE @]
          /\ banned_until' = [banned_until EXCEPT ![id] =
                                 IF c.reason \in WindowDenials THEN c.banned_until ELSE @]
          /\ user_quotas' = IF uid = None THEN user_quotas
                            ELSE [user_quotas EXCEPT ![uid] = c.quota]
          /\ rl_done' = [rl_done EXCEPT
                            ![id].admitted = IF c.outcome = "allowed" THEN @ + 1 ELSE @,
                            ![id].violations = IF c.reason \in WindowDenials
                                               THEN @ + 1 ELSE @]
    /\ rl_lock' = None
    /\ rl_call' = [rl_call EXCEPT ![w] = IdleCall]
    /\ UNCHANGED <<now, rl_config, user_tier, user_of, month_end, system_load, rl_last,
                   routerVars, extVars, cacheVars, ddosVars>>

\* the changes of tier explored: the next request comes with a key of a lower tier
TierChanges == {<<"basic", "free">>}

\* api_server.py, lines 195 and 221: the endpoint sets the router's tier to the
\* tier of the request's API key before it calls process_query
RL_SetTier(tier) ==
    /\ <<user_tier, tier>> \in TierChanges
    /\ user_tier' = tier
    /\ UNCHANGED <<now, rl_config, user_of, month_end, system_load, minute_buckets, hour_buckets,
                   day_buckets, violations, banned_until, user_quotas, rl_last, rl_lock, rl_call,
                   rl_done, routerVars, extVars, cacheVars, ddosVars>>

RL_Tick ==
    /\ TicksTaken(now) < MaxRateTicks
    /\ \A id \in Identifiers :
          Len(minute_buckets[id]) <= MaxBusyBucket \/ banned_until[id] # NotBanned
    /\ \E d \in Ticks : now' = now + d
    /\ UNCHANGED <<rateVars, routerVars, extVars, cacheVars, ddosVars>>

RateIdle ==
    /\ rl_config = RateLimitConfig
    /\ user_tier = "free"
    /\ user_of = [id \in Identifiers |-> None]
    /\ month_end = FALSE
    /\ system_load = << >>
    /\ minute_buckets = [id \in Identifiers |-> << >>]
    /\ hour_buckets = [id \in Identifiers |-> << >>]
    /\ day_buckets = [id \in Identifiers |-> << >>]
    /\ violations = [id \in Identifiers |-> 0]
    /\ banned_until = [id \in Identifiers |-> NotBanned]
    /\ user_quotas = [u \in UserIds \ {None} |-> NoQuota]
    /\ rl_last = NoCheck
    /\ RateWorkersIdle

(***************************************************************************)
(* DDoSProtection (src/rate_limiter.py).  check_request runs under         *)
(* self._lock, so one call is one step.                                    *)
(***************************************************************************)
Addresses == {"ip1"}
REQUEST_LOG_MAXLEN == 1000

\* DDoSProtection(window_size, threshold, block_duration): the defaults and two others
DDoSDefaults == [window_size |-> 60, threshold |-> 100, block_duration |-> 3600]

DDoSConfigs ==
    { DDoSDefaults,
      [window_size |-> 60, threshold |-> 2, block_duration |-> 30],
      [window_size |-> 30, threshold |-> 1000, block_duration |-> 3600] }

NotBlocked == -1

\* deque(maxlen=1000).append: a full deque drops its oldest element
DequeAppend(log, t) ==
    IF Len(log) >= REQUEST_LOG_MAXLEN THEN Append(Tail(log), t) ELSE Append(log, t)

\* check_request(ip_address) at time t: the state it leaves
check_request(log, blocked, t) ==
    IF blocked # NotBlocked /\ t < blocked
    THEN [allowed |-> FALSE, reason |-> "IP blocked due to suspicious activity",
          log |-> log, blocked |-> blocked]
    ELSE LET log1 == PopOld(DequeAppend(log, t), t, ddos_config.window_size)
         IN IF Len(log1) > ddos_config.threshold
            THEN [allowed |-> FALSE, reason |-> "Too many requests. IP temporarily blocked.",
                  log |-> log1, blocked |-> t + ddos_config.block_duration]
            ELSE [allowed |-> TRUE, reason |-> None, log |-> log1, blocked |-> NotBlocked]

NoRequest == [done |-> FALSE]

DDoS_Check(ip) ==
    \E r \in {check_request(request_log[ip], blocked_ips[ip], now)} :
    \E live \in {PopOld(admitted[ip], now, ddos_config.window_size)} :
       /\ request_log' = [request_log EXCEPT ![ip] = r.log]
       /\ blocked_ips' = [blocked_ips EXCEPT ![ip] = r.blocked]
       /\ admitted' = [admitted EXCEPT ![ip] =
                          IF r.allowed /\ Len(live) <= REQUEST_LOG_MAXLEN
                          THEN Append(live, now) ELSE live]
       /\ ddos_last' = [done |-> TRUE, ip |-> ip, allowed |-> r.allowed, reason |-> r.reason,
                        admitted_before |-> Len(live),
                        block_before |-> blocked_ips[ip],
                        at |-> now]
       /\ UNCHANGED <<now, ddos_config, routerVars, extVars, cacheVars, rateVars>>

DDoS_Tick ==
    /\ TicksTaken(now) < MaxDDoSTicks
    /\ \A ip \in Addresses :
          Len(request_log[ip]) <= MaxBusyLog \/ blocked_ips[ip] # NotBlocked
    /\ \E d \in Ticks : now' = now + d
    /\ UNCHANGED <<ddosVars, routerVars, extVars, cacheVars, rateVars>>

DDoSIdle ==
    /\ ddos_config = DDoSDefaults
    /\ request_log = [ip \in Addresses |-> << >>]
    /\ blocked_ips = [ip \in Addresses |-> NotBlocked]
    /\ admitted = [ip \in Addresses |-> << >>]
    /\ ddos_last = NoRequest

(***************************************************************************)
(* classifier.classify_text                                                *)
(***************************************************************************)
\* a text is its indicator-bearing words followed by `filler` words that
\* contain no indicator; the empty and the whitespace-only text have no word
Vocabulary == {"what", "this", "capital", "quantum", "algorithm", "code", "function", "hello"}
FillerChoices == {0, 18, 50}
NoText == [is_str |-> TRUE, words |-> << >>, filler |-> 0]
Texts == {[is_str |-> TRUE, words |-> w, filler |-> f] :
            w \in UNION {[1..n -> Vocabulary] : n \in 0..MaxWords}, f \in FillerChoices}
\* the argument None, which is no str
NoneText == [is_str |-> FALSE, words |-> << >>, filler |-> 0]
TextInputs == Texts \cup {NoneText}

\* the indicator words that occur in a word as substrings ('word in text_lower')
complex_words(tok) ==
    IF tok \in {"quantum", "algorithm"} THEN {tok} ELSE {}
simple_words(tok) ==
    CASE tok = "what" -> {"what"}
      [] tok = "this" -> {"is"}
      [] tok = "capital" -> {"capital"}
      [] OTHER -> {}
code_words(tok) ==
    CASE tok = "code" -> {"code"}
      [] tok = "function" -> {"function"}
      [] tok = "capital" -> {"api"}
      [] OTHER -> {}

complex_score(text) == Cardinality(UNION {complex_words(text.words[i]) : i \in DOMAIN text.words})
simple_score(text) == Cardinality(UNION {simple_words(text.words[i]) : i \in DOMAIN text.words})
code_score(text) == Cardinality(UNION {code_words(text.words[i]) : i \in DOMAIN text.words})
word_count(text) == Len(text.words) + text.filler

TierLabels == {"S", "M", "A"}
AttributeError == "AttributeError"

\* lines 47-73; None has no lower()
heuristic(text) ==
    IF ~text.is_str THEN AttributeError
    ELSE IF complex_score(text) >= 2 \/ word_count(text) > 50 \/ code_score(text) >= 2 THEN "A"
    ELSE IF simple_score(text) >= 1 /\ word_count(text) < 20 /\ complex_score(text) = 0 THEN "S"
    ELSE "M"

\* what the trained pipeline does with a text: it is absent, it raises, or it gives a label
NoPipe == "<no pipe>"
PipeRaises == "<raises>"
PipeLabels == {"Simple", "S", "Moderate", "Medium", "M", "Complex", "Advanced", "A", "LABEL_0"}
PipeOutcomes == {NoPipe, PipeRaises} \cup PipeLabels

\* lines 37-43
MapLabel(label) ==
    IF label \in {"Simple", "S"} THEN "S"
    ELSE IF label \in {"Moderate", "Medium", "M"} THEN "M"
    ELSE IF label \in {"Complex", "Advanced", "A"} THEN "A"
    ELSE label

classify_text(pipe, text) ==
    IF pipe \in PipeLabels THEN MapLabel(pipe) ELSE heuristic(text)

Pending == "<pending>"

Classify ==
    /\ cls_result = Pending
    /\ cls_result' = classify_text(cls_pipe, cls_text)
    /\ UNCHANGED <<cls_pipe, cls_text, offClassifier>>

ClassifierIdle ==
    /\ cls_pipe = NoPipe
    /\ cls_text = NoText
    /\ cls_result = Pending

(***************************************************************************)
(* fallback.calculate_cost                                                 *)
(***************************************************************************)
\* PRICES, per 1M tokens, in hundredths of a dollar
PRICES ==
    [m \in {"qwen-2.5-72b-instruct", "mistral-7b-instruct", "llama-3.3-8b-instruct",
             "qwen/qwen2.5-vl-32b-instruct:free", "openai/gpt-oss-20b:free",
             "mistralai/devstral-small-2505:free", "qwen/qwq-32b:free",
             "qwen/qwen-2.5-coder-32b-instruct:free",
             "deepseek/deepseek-r1-distill-llama-70b:free",
             "meta-llama/llama-3.3-70b-instruct:free"} |->
        CASE m = "qwen-2.5-72b-instruct" -> [input |-> 70, output |-> 70]
          [] m = "mistral-7b-instruct" -> [input |-> 25, output |-> 25]
          [] OTHER -> [input |-> 15, output |-> 15]]

\* the row named in the except branch of calculate_cost
DEFAULT_PRICE_ROW == "deepseek/deepseek-r1-distill-llama-70b:free"

\* identifiers that are no key of PRICES: a candidate of MODEL_KEY_MAP and a user model
UnpricedModels == {"mistralai/mistral-7b-instruct:free", "my/private-model"}
CostModels == DOMAIN PRICES \cup UnpricedModels
TOKEN_STEP == 500
TokenChoices == {k * TOKEN_STEP : k \in 0..MaxTokenSteps}

\* the cost in units of 10^-8 dollar: cents per 1M tokens times tokens
calculate_cost(model_name, input_tokens, output_tokens) ==
    IF model_name \notin DOMAIN PRICES THEN 0
    ELSE LET price == PRICES[model_name]
         IN input_tokens * price.input + output_tokens * price.output

NoCost == -1

CalculateCost ==
    /\ cost_result = NoCost
    /\ cost_result' = calculate_cost(cost_model, cost_in, cost_out)
    /\ UNCHANGED <<cost_model, cost_in, cost_out, offCost>>

CostIdle ==
    /\ cost_model = DEFAULT_PRICE_ROW
    /\ cost_in = 0
    /\ cost_out = 0
    /\ cost_result = NoCost

(***************************************************************************)
(* Model ratings: crud._initialize_user_model_rating and                   *)
(* ModelRatingManager.add_feedback / get_ranked_models                     *)
(***************************************************************************)
\* m1 and m2 are models of MODELS_CONFIG (tier1 and tier2), u1 is a user model
RatingModels == {"m1", "m2", "u1"}
RatingTiers == {"tier1", "tier2"}
Sessions == {"s1", "s2"}
SEED_SCORE == 100
EMPTY_TIER_SCORE == 101
POINTS == [like |-> 5, dislike |-> -5, star |-> 10]
FeedbackTypes == {"like", "dislike", "star", "meh"}

\* an attribute of a new ModelRating object that the constructor call did not
\* set: it reads as None until the INSERT applies the column default
Unset == -1
NoRow == [exists |-> FALSE, tier |-> "tier1", score |-> 0, total_feedbacks |-> 0]
Row(tier, score, n) == [exists |-> TRUE, tier |-> tier, score |-> score, total_feedbacks |-> n]

\* add_feedback lines 84-92: the tier of the model in MODELS_CONFIG, else tier1
detected_tier(model) == IF model = "m2" THEN "tier2" ELSE "tier1"

TierRows(table, tier) == {m \in RatingModels : table[m].exists /\ table[m].tier = tier}

\* .order_by(score.desc()).first().score + 1, or 101 for a tier without rows
initial_score(table, tier) ==
    IF TierRows(table, tier) = {} THEN EMPTY_TIER_SCORE
    ELSE LET top == CHOOSE m \in TierRows(table, tier) :
                      \A o \in TierRows(table, tier) : table[o].score <= table[m].score
         IN table[top].score + 1

\* get_ranked_models: the orders the query may give (rows of equal score come
\* in an order the database chooses)
get_ranked_models(table, tier) ==
    LET rows == TierRows(table, tier)
        n == Cardinality(rows)
    IN {r \in [1..n -> rows] :
          /\ \A i, j \in 1..n : i # j => r[i] # r[j]
          /\ \A i, j \in 1..n : i < j => table[r[i]].score >= table[r[j]].score}

NoCall == [op |-> "none", session |-> "s1", model |-> "m1", tier |-> "tier1",
           feedback_type |-> "like", had_row |-> FALSE, success |-> FALSE, error |-> None]
IdleSession == [pc |-> "idle", model |-> "m1", feedback_type |-> "like", row |-> NoRow,
                had_row |-> FALSE]
NoFeedback == [sum |-> 0, count |-> 0]

\* crud._initialize_user_model_rating(db, model_name, tier), within create_user_api_key
InitializeUserModelRating(model, tier) ==
    /\ rt_ops < MaxRatingOps
    /\ \A s \in Sessions : sess[s].pc = "idle"
    /\ rt_ops' = rt_ops + 1
    /\ ratings' = IF ratings[model].exists THEN ratings
                  ELSE [ratings EXCEPT ![model] = Row(tier, initial_score(ratings, tier), 0)]
    /\ rt_last' = [NoCall EXCEPT !.op = "init", !.model = model, !.tier = tier,
                                  !.had_row = ratings[model].exists, !.success = TRUE]
    /\ UNCHANGED <<ratings0, fb_log, sess, rt_sessions, offRating>>

\* add_feedback up to the reads: the type is validated, the feedback row is
\* added to the session, the rating row is loaded or a new one is built
AF_Load(s, model, feedback_type) ==
    /\ s \in rt_sessions
    /\ sess[s].pc = "idle"
    /\ rt_ops < MaxRatingOps
    /\ rt_ops' = rt_ops + 1
    /\ IF feedback_type \notin DOMAIN POINTS
       THEN /\ rt_last' = [NoCall EXCEPT !.op = "feedback", !.session = s, !.model = model,
                                         !.feedback_type = feedback_type,
                                         !.had_row = ratings[model].exists,
                                         !.error = "Invalid feedback type"]
            /\ UNCHANGED sess
       ELSE /\ sess' = [sess EXCEPT ![s] =
                  [pc |-> "loaded", model |-> model, feedback_type |-> feedback_type,
                   had_row |-> ratings[model].exists,
                   row |-> IF ratings[model].exists THEN ratings[model]
                           ELSE Row(detected_tier(model),
                                    initial_score(ratings, detected_tier(model)), Unset)]]
            /\ UNCHANGED rt_last
    /\ UNCHANGED <<ratings, ratings0, fb_log, rt_sessions, offRating>>

\* lines 105-107 on the loaded object
add_feedback_update(row, points) ==
    [row EXCEPT !.score = @ + points, !.total_feedbacks = @ + 1]

\* add_feedback from the update of the loaded object to the commit (or the
\* rollback of the except branch)
AF_Commit(s) ==
    /\ sess[s].pc = "loaded"
    /\ LET model == sess[s].model
           ft == sess[s].feedback_type
           call == [NoCall EXCEPT !.op = "feedback", !.session = s, !.model = model,
                                  !.tier = sess[s].row.tier, !.feedback_type = ft,
                                  !.had_row = sess[s].had_row]
       IN IF sess[s].row.total_feedbacks = Unset
          THEN \* None += 1
               /\ rt_last' = [call EXCEPT !.error = "TypeError"]
               /\ UNCHANGED <<ratings, fb_log>>
          ELSE /\ ratings' = [ratings EXCEPT ![model] = add_feedback_update(sess[s].row, POINTS[ft])]
               /\ fb_log' = [fb_log EXCEPT ![model] = [sum |-> @.sum + POINTS[ft],
                                                       count |-> @.count + 1]]
               /\ rt_last' = [call EXCEPT !.success = TRUE]
    /\ sess' = [sess EXCEPT ![s] = IdleSession]
    /\ UNCHANGED <<ratings0, rt_sessions, rt_ops, offRating>>

\* the tables the service can start with: the rows init_model_ratings seeded
\* for the models of MODELS_CONFIG, with the feedback they got since
SeededScores == {SEED_SCORE, SEED_SCORE + POINTS.like}
InitialTables ==
    {[m \in RatingModels |->
        CASE m = "m1" -> r1
          [] m = "m2" -> r2
          [] OTHER -> NoRow] :
       r1 \in {NoRow} \cup {Row("tier1", sc, 0) : sc \in SeededScores},
       r2 \in {NoRow} \cup {Row("tier2", sc, 0) : sc \in SeededScores}}

RatingIdle ==
    /\ ratings = [m \in RatingModels |-> NoRow]
    /\ ratings0 = ratings
    /\ fb_log = [m \in RatingModels |-> NoFeedback]
    /\ sess = [s \in Sessions |-> IdleSession]
    /\ rt_sessions = {}
    /\ rt_ops = 0
    /\ rt_last = NoCall

RatingStart(sessions) ==
    /\ ratings \in InitialTables
    /\ ratings0 = ratings
    /\ fb_log = [m \in RatingModels |-> NoFeedback]
    /\ sess = [s \in Sessions |-> IdleSession]
    /\ rt_sessions = sessions
    /\ rt_ops = 0
    /\ rt_last = NoCall

(***************************************************************************)
(* FallbackChatGradientAI.invoke                                           *)
(***************************************************************************)
\* the inner loop is 'for attempt in range(2)', whatever max_retries is
ATTEMPTS_PER_MODEL == 2

\* how a requests.post call ends: status 200 with a body that has the message
\* content (a text or an empty text), status 200 with a body that lacks it,
\* another status, a timeout, or another exception
HttpOutcomes == {"ok-text", "ok-empty", "bad-body", "status", "timeout", "error"}
Succeeds(outcome) == outcome \in {"ok-text", "ok-empty"}
ContentOf(outcome) == IF outcome = "ok-text" THEN "resp" ELSE ""
ErrorOf(outcome) ==
    CASE outcome = "status" -> "HTTP 500"
      [] outcome = "timeout" -> "Request timeout (30s)"
      [] outcome = "bad-body" -> "KeyError"
      [] OTHER -> "ConnectionError"

NoResult == [kind |-> "none", model |-> 0, response |-> None, count |-> 0, retries |-> 0,
             last_error |-> None]

\* invoke(prompt, max_retries = 3): the values of max_retries explored
DEFAULT_MAX_RETRIES == 3
MaxRetriesArgs == {2, DEFAULT_MAX_RETRIES}

\* keys: a key that is not there, an empty key, and one text per source
NoKey == None
UserKeyChoices == {NoKey, "", "user-key"}

\* MODEL_KEY_MAP lists candidate 1; the odd candidates belong to a provider
\* family of env_key_mappings, the even ones match none of its patterns
InKeyMap(m) == m = 1
InFamily(m) == m % 2 = 1

NoCreds == [user |-> << >>, model_env |-> NoKey, family_env |-> NoKey, default |-> NoKey]

CredentialChoices(models) ==
    {[user |-> u, model_env |-> me, family_env |-> fe, default |-> dk] :
        u \in [DOMAIN models -> UserKeyChoices],
        me \in {NoKey, "model-env-key"}, fe \in {NoKey, "family-env-key"},
        dk \in {NoKey, "default-key"}}

\* self.user_api_keys[m] after __init__ (_load_env_api_keys), NoKey when absent:
\* a key passed in stays, else the key of the MODEL_KEY_MAP variable, else the
\* key of the matching family variable
user_api_keys_env_first(creds, m) ==
    IF InKeyMap(m) /\ Truthy(creds.model_env) THEN creds.model_env
    ELSE IF InFamily(m) /\ Truthy(creds.family_env) THEN creds.family_env
    ELSE creds.user[m]

user_api_keys(creds, m) ==
    IF creds.user[m] # NoKey THEN creds.user[m]
    ELSE IF InKeyMap(m) /\ Truthy(creds.model_env) THEN creds.model_env
    ELSE IF InFamily(m) /\ Truthy(creds.family_env) THEN creds.family_env
    ELSE NoKey

\* invoke, line 156: self.user_api_keys.get(model_identifier, default_api_key)
api_key(creds, m) ==
    IF user_api_keys(creds, m) # NoKey THEN user_api_keys(creds, m) ELSE creds.default

\* a successful call returns its record at once
AfterSuccess_next_attempt == "loop"

AfterSuccess == "returned"

\* the candidate has no API key: 'continue'
FB_Skip ==
    /\ fb_pc = "loop"
    /\ fb_idx <= Len(fb_models)
    /\ fb_models[fb_idx] \notin fb_keyed
    /\ fb_idx' = fb_idx + 1
    /\ UNCHANGED <<fb_models, fb_keyed, fb_max_retries, fb_creds, fb_pc, fb_attempt, fb_http, fb_last_exception, fb_result,
                   offFallback>>

\* one pass of the inner loop: a requests.post call and what follows from it
FB_Attempt(outcome) ==
    /\ fb_pc = "loop"
    /\ fb_idx <= Len(fb_models)
    /\ fb_models[fb_idx] \in fb_keyed
    /\ fb_http' = Append(fb_http, [idx |-> fb_idx, model |-> fb_models[fb_idx], outcome |-> outcome,
                                   key |-> api_key(fb_creds, fb_models[fb_idx])])
    /\ IF Succeeds(outcome)
       THEN /\ fb_pc' = AfterSuccess
            /\ fb_result' = [NoResult EXCEPT !.kind = "record", !.model = fb_models[fb_idx],
                                              !.response = ContentOf(outcome)]
            /\ UNCHANGED fb_last_exception
       ELSE /\ fb_last_exception' = ErrorOf(outcome)
            /\ UNCHANGED <<fb_pc, fb_result>>
    /\ IF fb_attempt + 1 < ATTEMPTS_PER_MODEL
       THEN fb_attempt' = fb_attempt + 1 /\ UNCHANGED fb_idx
       ELSE fb_attempt' = 0 /\ fb_idx' = fb_idx + 1
    /\ UNCHANGED <<fb_models, fb_keyed, fb_max_retries, fb_creds, offFallback>>

\* the outer loop is exhausted: raise Exception("All ... failed ... Last error: ...")
FB_Raise ==
    /\ fb_pc = "loop"
    /\ fb_idx > Len(fb_models)
    /\ fb_pc' = "raised"
    /\ fb_result' = [NoResult EXCEPT !.kind = "raise", !.count = Len(fb_models),
                                     !.retries = fb_max_retries,
                                     !.last_error = Str(fb_last_exception)]
    /\ UNCHANGED <<fb_models, fb_keyed, fb_max_retries, fb_creds, fb_idx, fb_attempt, fb_http, fb_last_exception,
                   offFallback>>

CandidateLists == {[i \in 1..n |-> i] : n \in 0..MaxCandidates}

FallbackIdle ==
    /\ fb_models = << >>
    /\ fb_keyed = {}
    /\ fb_pc = "idle"
    /\ fb_idx = 1
    /\ fb_attempt = 0
    /\ fb_http = << >>
    /\ fb_last_exception = None
    /\ fb_result = NoResult
    /\ fb_max_retries = DEFAULT_MAX_RETRIES
    /\ fb_creds = NoCreds

(***************************************************************************)
(* production_api: the query endpoints run process_query in a thread pool  *)
(* and wait for it with asyncio.wait_for(future, timeout=60.0)             *)
(***************************************************************************)
NoTimeout == -1

\* wait_for gives up while the pool thread is inside process_query. The
\* future of a running pool thread cannot be cancelled and neither
\* process_query nor Router.route looks at a deadline or a flag, so nothing
\* of the query's state changes; the endpoint then leaves the 'with
\* ThreadPoolExecutor' block, which joins the thread, and answers 504.
CallerTimeout(t) ==
    /\ pc[t] \notin {"idle", "responded", "done"}
    /\ timeout_at[t] = NoTimeout
    /\ timeout_at' = [timeout_at EXCEPT ![t] = calls[t].llm]
    /\ UNCHANGED <<offApi, conv_saved>>

NoSave == [written |-> FALSE, response |-> None, success |-> FALSE, error |-> None,
           cache_hit |-> FALSE]

\* send_message, lines 780-781: process_query returned within the timeout and
\* its result goes to the conversation cache
SM_Save(t) ==
    /\ pc[t] = "responded"
    /\ timeout_at[t] = NoTimeout
    /\ conv_saved' = [conv_saved EXCEPT ![t] =
                         [written |-> TRUE, response |-> response[t].response,
                          success |-> response[t].success, error |-> response[t].error,
                          cache_hit |-> response[t].cache_hit]]
    /\ response' = [response EXCEPT ![t] = NoResponse]
    /\ pc' = [pc EXCEPT ![t] = "done"]
    /\ UNCHANGED <<now, cacheVars, rateVars, ddosVars, clsVars, costVars, ratingVars,
                   fallbackVars, scriptVars, timeout_at, mode, max_retries, base_config,
                   models_config, query, user_models, original_models_config, state, step,
                   calls, selected, raised>>

ApiIdle ==
    /\ timeout_at = [t \in Threads |-> NoTimeout]
    /\ conv_saved = [t \in Threads |-> NoSave]

ScriptIdle == script = NoScript

ExtIdle == ClassifierIdle /\ CostIdle /\ RatingIdle /\ FallbackIdle /\ ApiIdle /\ ScriptIdle

InitThreads ==
    /\ pc = [t \in Threads |-> "idle"]
    /\ query = [t \in Threads |-> ""]
    /\ user_models = [t \in Threads |-> NoUserModels]
    /\ original_models_config = [t \in Threads |-> EmptyTiers]
    /\ state = [t \in Threads |-> InitialState("")]
    /\ step = [t \in Threads |-> 0]
    /\ calls = [t \in Threads |-> NoCalls]
    /\ selected = [t \in Threads |-> << >>]
    /\ raised = [t \in Threads |-> None]
    /\ response = [t \in Threads |-> NoResponse]

\* the Router when no query is in progress
RouterIdle ==
    /\ mode = "off"
    /\ max_retries = MAX_RETRIES_PER_MODEL
    /\ base_config = BaseConfig(0)
    /\ models_config = base_config
    /\ InitThreads

OffRouterIdle == now = 0 /\ CacheIdle /\ RateIdle /\ DDoSIdle /\ ExtIdle

Init ==
    /\ OffRouterIdle
    /\ \/ mode = "seq" /\ max_retries = MAX_RETRIES_PER_MODEL
       \/ mode = "simple" /\ max_retries \in MaxRetriesChoices
    /\ \E n \in 0..MaxTierSize : base_config = BaseConfig(n)
    /\ models_config = base_config
    /\ InitThreads

InitConc ==
    /\ OffRouterIdle
    /\ mode = "conc"
    /\ max_retries = MAX_RETRIES_PER_MODEL
    /\ \E n \in 0..MaxConcTierSize : base_config = BaseConfig(n)
    /\ models_config = base_config
    /\ InitThreads

\* one query through the Router
InitSingle ==
    /\ OffRouterIdle
    /\ mode = "single"
    /\ max_retries = MAX_RETRIES_PER_MODEL
    /\ \E n \in 0..MaxSingleTierSize : base_config = BaseConfig(n)
    /\ models_config = base_config
    /\ InitThreads

Scripts ==
    {[query |-> q, user_models |-> um, cache |-> c, cls |-> k, llm |-> l] :
        q \in Queries,
        um \in {NoUserModels, [ids |-> [EmptyTiers EXCEPT !["tier1"] = <<OverrideOf("A")>>]]},
        c \in {"miss", "raise", "cached"},
        k \in {"S", "M", "A", "X", "raise"},
        l \in [1..MaxScript -> {"ok", "empty", "fail"}]}

\* a Router and a SimpleRouter built with the same arguments
InitEquiv ==
    /\ now = 0 /\ CacheIdle /\ RateIdle /\ DDoSIdle
    /\ ClassifierIdle /\ CostIdle /\ RatingIdle /\ FallbackIdle /\ ApiIdle
    /\ script \in Scripts
    /\ mode = "equiv"
    /\ max_retries \in MaxRetriesChoices
    /\ \E n \in 0..MaxEquivTierSize : base_config = BaseConfig(n)
    /\ models_config = base_config
    /\ InitThreads

InitCache ==
    /\ now = 0
    /\ CacheIdle
    /\ RouterIdle /\ RateIdle /\ DDoSIdle /\ ExtIdle

InitRate ==
    /\ now = 0
    /\ rl_config \in RateConfigs
    /\ user_tier \in RateTiers
    /\ user_of \in [Identifiers -> UserIds]
    /\ month_end \in BOOLEAN
    /\ system_load = << >>
    /\ minute_buckets = [id \in Identifiers |-> << >>]
    /\ hour_buckets = [id \in Identifiers |-> << >>]
    /\ day_buckets = [id \in Identifiers |-> << >>]
    /\ violations = [id \in Identifiers |-> 0]
    /\ banned_until = [id \in Identifiers |-> NotBanned]
    /\ user_quotas = [u \in UserIds \ {None} |-> NoQuota]
    /\ rl_last = NoCheck
    /\ RateWorkersIdle
    /\ RouterIdle /\ CacheIdle /\ DDoSIdle /\ ExtIdle

InitRateConc ==
    /\ InitRate
    /\ rl_config = [ban_threshold |-> 2, ban_duration |-> 60, enable_adaptive |-> FALSE]
    /\ user_tier = "free"
    /\ month_end = FALSE

\* one limiter whose owner's tier is set per request
InitRateMix ==
    /\ InitRate
    /\ rl_config = [ban_threshold |-> 2, ban_duration |-> 60, enable_adaptive |-> FALSE]
    /\ user_of = [id \in Identifiers |-> None]
    /\ month_end = FALSE

InitDDoS ==
    /\ now = 0
    /\ ddos_config \in DDoSConfigs
    /\ request_log = [ip \in Addresses |-> << >>]
    /\ blocked_ips = [ip \in Addresses |-> NotBlocked]
    /\ admitted = [ip \in Addresses |-> << >>]
    /\ ddos_last = NoRequest
    /\ RouterIdle /\ CacheIdle /\ RateIdle /\ ExtIdle

CoreIdle == now = 0 /\ RouterIdle /\ CacheIdle /\ RateIdle /\ DDoSIdle

InitClassifier ==
    /\ cls_pipe \in PipeOutcomes
    /\ cls_text \in TextInputs
    /\ cls_result = Pending
    /\ CoreIdle /\ CostIdle /\ RatingIdle /\ FallbackIdle /\ ApiIdle /\ ScriptIdle

InitCost ==
    /\ cost_model \in CostModels
    /\ cost_in \in TokenChoices
    /\ cost_out \in TokenChoices
    /\ cost_result = NoCost
    /\ CoreIdle /\ ClassifierIdle /\ RatingIdle /\ FallbackIdle /\ ApiIdle /\ ScriptIdle

\* one session: the calls come one after another
InitRating ==
    /\ RatingStart({"s1"})
    /\ CoreIdle /\ ClassifierIdle /\ CostIdle /\ FallbackIdle /\ ApiIdle /\ ScriptIdle

\* invoke(prompt) on a list of candidates, some of them without an API key
InitFallback ==
    /\ fb_models \in CandidateLists
    /\ fb_max_retries \in MaxRetriesArgs
    /\ fb_creds \in CredentialChoices(fb_models)
    /\ fb_keyed = {m \in {fb_models[i] : i \in DOMAIN fb_models} : Truthy(api_key(fb_creds, m))}
    /\ fb_pc = "loop"
    /\ fb_idx = 1
    /\ fb_attempt = 0
    /\ fb_http = << >>
    /\ fb_last_exception = None
    /\ fb_result = NoResult
    /\ CoreIdle /\ ClassifierIdle /\ CostIdle /\ RatingIdle /\ ApiIdle /\ ScriptIdle

\* two sessions: add_feedback calls of different requests overlap
InitFeedback ==
    /\ RatingStart(Sessions)
    /\ CoreIdle /\ ClassifierIdle /\ CostIdle /\ FallbackIdle /\ ApiIdle /\ ScriptIdle

\* a step of process_query / Router.route for query t
RouterStep(t) ==
    \/ PQ_Begin(t)
    \/ Route(t)
    \/ Merge(t)
    \/ Invoke(t)
    \/ CheckCacheNode(t)
    \/ ClassifyNode(t)
    \/ SelectNode(t)
    \/ CallNode(t)
    \/ HandleErrorNode(t)
    \/ StoreNode(t)
    \/ RouteReturn(t)
    \/ PQ_Respond(t)
    \/ PQ_Except(t)
    \/ PQ_Return(t)

\* a step of SimpleRouter.route
SimpleStep(t) ==
    \/ S_Route(t)
    \/ S_CheckCache(t)
    \/ S_Classify(t)
    \/ S_Loop(t)
    \/ S_Call(t)
    \/ S_Store(t)

Next == \E t \in Threads : RouterStep(t) \/ SimpleStep(t)

NextConc == \E t \in Threads : RouterStep(t)

NextSingle == RouterStep("A")

NextCache ==
    \/ \E q \in CacheQueries, th \in ThresholdChoices : CacheGet(q, th)
    \/ \E q \in CacheQueries, r \in CacheResponses, ttl \in TtlChoices : CacheSet(q, r, ttl)
    \/ CacheTick

NextRate ==
    \/ \E id \in Identifiers : RL_Check(id)
    \/ RL_Tick

NextDDoS ==
    \/ \E ip \in Addresses : DDoS_Check(ip)
    \/ DDoS_Tick

Spec == Init /\ [][Next]_vars
SpecConc == InitConc /\ [][NextConc]_vars
SpecCache == InitCache /\ [][NextCache]_vars
SpecRate == InitRate /\ [][NextRate]_vars
SpecDDoS == InitDDoS /\ [][NextDDoS]_vars

SpecSingle == InitSingle /\ [][NextSingle]_vars

NextEquiv == RouterStep("A") \/ SimpleStep("B")

SpecEquiv == InitEquiv /\ [][NextEquiv]_vars

\* one query behind the API endpoint
NextTimeout == RouterStep("A") \/ CallerTimeout("A")

SpecTimeout == InitSingle /\ [][NextTimeout]_vars

NextClassifier == Classify

SpecClassifier == InitClassifier /\ [][NextClassifier]_vars

NextCost == CalculateCost

SpecCost == InitCost /\ [][NextCost]_vars

NextRating ==
    \/ \E m \in RatingModels, tier \in RatingTiers : InitializeUserModelRating(m, tier)
    \/ \E s \in Sessions, m \in RatingModels, ft \in FeedbackTypes : AF_Load(s, m, ft)
    \/ \E s \in Sessions : AF_Commit(s)

SpecRating == InitRating /\ [][NextRating]_vars

SpecFeedback == InitFeedback /\ [][NextRating]_vars

NextFallback ==
    \/ FB_Skip
    \/ \E outcome \in HttpOutcomes : FB_Attempt(outcome)
    \/ FB_Raise

SpecFallback == InitFallback /\ [][NextFallback]_vars

(***************************************************************************)
(* Claims about the dispatch engine                                        *)
(***************************************************************************)
Other(t) == IF t = "A" THEN "B" ELSE "A"

\* the run of thread t is past its cache lookup and the lookup was a hit
CacheHitRun(t) == state[t].cache_hit

\* C1: after a cache hit route ends at once (the only positions a run with
\* cache_hit can be in are the end of the workflow and the return of route),
\* the result is the cached response, and the classifier, select_model, the
\* backend client and cache.set were never called; retry_count is 0.  This
\* holds for Router.route and for SimpleRouter.route.
C1_CacheHitEndsRoute ==
    \A t \in Threads :
      CacheHitRun(t) =>
        /\ pc[t] \in {"END", "respond", "s_return"}
        /\ state[t].llm_response = state[t].cached_response
        /\ state[t].cached_response = "cached"
        /\ calls[t].classifier = 0 /\ calls[t].select = 0
        /\ calls[t].llm = 0 /\ calls[t].cache_set = 0
        /\ state[t].retry_count = 0
        /\ state[t].classification = None /\ state[t].selected_model = NoModel

C1_Witness ==
    /\ mode = "seq" /\ pc["B"] = "respond" /\ CacheHitRun("B")
    /\ user_models["B"] # NoUserModels

C1_WitnessSimple == mode = "simple" /\ pc["A"] = "s_return" /\ CacheHitRun("A")

\* number of candidates in the tier the run of t uses
TierSizeOf(t) == Len(models_config[_map_classification_to_tier(state[t].classification)])

\* the run of t was classified, found candidates, and all its backend calls raised
AllCallsFailed(t) ==
    /\ ~state[t].cache_hit
    /\ state[t].classification # None
    /\ TierSizeOf(t) >= 1
    /\ calls[t].llm_failed = calls[t].llm

\* C2: with N >= 1 candidates and every backend call failing, the workflow
\* ends (it does not leave route by an exception) after exactly 3N calls on
\* the indices 0..N-1 repeated three times, with an error in the final state.
C2_AllFailingSelectsRoundRobin ==
    \A t \in Threads :
      (mode = "seq" /\ pc[t] \in {"END", "raise"} /\ AllCallsFailed(t)) =>
        /\ pc[t] = "END"
        /\ calls[t].llm = MAX_RETRIES_PER_MODEL * TierSizeOf(t)
        /\ selected[t] = [k \in 1..(MAX_RETRIES_PER_MODEL * TierSizeOf(t)) |->
                            (k - 1) % TierSizeOf(t)]
        /\ Truthy(state[t].error)

\* C3: a QueryResponse says success exactly when it carries a cached or a
\* backend response; otherwise it has success = false, a non-empty error and
\* an empty response text.
C3_FailureIsStructured ==
    \A t \in Threads :
      pc[t] = "responded" =>
        IF response[t].response \in {"resp", "cached"}
        THEN response[t].success
        ELSE /\ ~response[t].success
             /\ Truthy(response[t].error)
             /\ response[t].response = ""

\* C4: when query B is routed after query A has finished, the candidate
\* lists are those of before A, whatever the outcome of A.
C4_OverridesDiscardedAfterQuery ==
    (mode = "seq" /\ pc["A"] = "done") =>
      /\ pc["B"] \in {"idle", "route"} => models_config = base_config
      /\ state["B"].selected_model # OverrideOf("A")

\* C5: with A and B in parallel, neither selects a candidate that came from
\* the other's overrides, and when both have finished the candidate lists
\* are those of before.
C5_NoLeakBetweenParallelQueries ==
    mode = "conc" =>
      /\ \A t \in Threads : state[t].selected_model # OverrideOf(Other(t))
      /\ (\A t \in Threads : pc[t] = "done") => models_config = base_config


(***************************************************************************)
(* ConversationCache: claims C6 and C7, under SpecCache.                   *)
(***************************************************************************)
\* the entry that the set before the last get appended
SetEntry == cache[Len(cache)]

\* the entries that carry the embedding of the last get's query
SameEmbedding == {i \in DOMAIN cache : cache[i].embedding = Embed(got.query)}

FirstSame == CHOOSE i \in SameEmbedding : \A j \in SameEmbedding : i <= j

\* C6 (as stated): for every prior content of the cache, set(Q, R) immediately
\* followed by get(Q) returns R, the text stored for R.
C6_SetThenGetReturnsR ==
    (got.done /\ got.after_set) => got.result = SetEntry.response

\* C6 (amended): set(Q, R) immediately followed by get(Q) returns the response of
\* the earliest unexpired entry whose embedding equals that of Q, which is R when
\* no earlier unexpired entry has the embedding of Q.
C6_SetThenGetReturnsEarliestMatch ==
    (got.done /\ got.after_set) =>
        /\ got.result = cache[FirstSame].response
        /\ (SameEmbedding = {Len(cache)} => got.result = SetEntry.response)

\* set(Q, R) then get(Q) with an older unexpired entry for Q that holds another response
C6_Witness ==
    /\ got.done /\ got.after_set
    /\ \E i \in SameEmbedding : i < Len(cache) /\ cache[i].response # SetEntry.response
    /\ got.result # SetEntry.response

\* C7: get never returns the response of an entry whose age exceeds its ttl, and
\* leaves no such entry in the cache.
C7_NeverReturnsExpired ==
    got.done =>
        /\ \A i \in DOMAIN cache : now - cache[i].timestamp <= cache[i].ttl
        /\ (got.entry # 0 => now - cache[got.entry].timestamp <= cache[got.entry].ttl)
        /\ (got.expired_match /\ SameEmbedding = {} /\ got.threshold = "100"
               => got.result = None)

\* a get for Q made after the only entry for Q expired: it answers None
C7_Witness ==
    /\ got.done /\ got.expired_match
    /\ cache = << >> /\ got.result = None
    /\ now >= 2


(***************************************************************************)
(* RateLimiter: claims C8 and C10, under SpecRate.                         *)
(***************************************************************************)
\* C8: for an identity on a tier with minute limit L whose windows start empty,
\* the first L calls made within one minute are admitted, the (L+1)-th is denied
\* as rate-limited, and the remaining-minute value then reported is 0.
C8_FirstLAdmittedThenDenied ==
    rl_last.done =>
        LET L == tier_limits[rl_last.tier].minute
        IN /\ (/\ rl_last.minute_before < L
               /\ rl_last.hour_before = rl_last.minute_before
               /\ rl_last.day_before = rl_last.minute_before)
                  => rl_last.outcome = "allowed"
           /\ (/\ rl_last.minute_before = L
               /\ ~(rl_last.ban_before # NotBanned /\ rl_last.at < rl_last.ban_before))
                  => /\ rl_last.outcome = "denied"
                     /\ rl_last.reason = "Rate limit exceeded: per minute"
                     /\ get_rate_limit_headers(rl_last.identifier,
                                               rl_last.tier).remaining_minute = 0

\* C10: each violation increments the violation counter; when the counter reaches
\* ban_threshold the identity is banned for ban_duration seconds from then, and
\* every call made during the ban is denied as banned.
C10_ViolationsLeadToBan ==
    /\ \A id \in Identifiers :
          violations[id] >= rl_config.ban_threshold => banned_until[id] # NotBanned
    /\ rl_last.done =>
          /\ rl_last.reason \in WindowDenials =>
                /\ violations[rl_last.identifier] = rl_last.violations_before + 1
                /\ violations[rl_last.identifier] >= rl_config.ban_threshold
                      => banned_until[rl_last.identifier]
                            = rl_last.at + rl_config.ban_duration
          /\ (rl_last.ban_before # NotBanned /\ rl_last.at < rl_last.ban_before)
                => /\ rl_last.outcome = "denied"
                   /\ rl_last.reason = "Temporarily banned"

\* a call denied as banned although its minute, hour and day windows have room
C10_Witness ==
    /\ rl_last.done /\ rl_last.reason = "Temporarily banned"
    /\ rl_last.minute_before < LimitsOf(rl_last.tier).minute
    /\ rl_last.hour_before < LimitsOf(rl_last.tier).hourly
    /\ rl_last.day_before < LimitsOf(rl_last.tier).daily
    /\ violations[rl_last.identifier] = rl_config.ban_threshold


(***************************************************************************)
(* DDoSProtection: claim C9, under SpecDDoS.                               *)
(***************************************************************************)
\* C9: a request that finds threshold requests of its address admitted within the
\* window is denied and blocks the address, and a request made while a block has
\* not run out is denied, whatever threshold, window and block duration are.
C9_ThresholdPlusOneBlocks ==
    ddos_last.done =>
        /\ ddos_last.admitted_before >= ddos_config.threshold
              => /\ ~ddos_last.allowed
                 /\ blocked_ips[ddos_last.ip] # NotBlocked
        /\ (ddos_last.block_before # NotBlocked /\ ddos_last.at < ddos_last.block_before)
              => ~ddos_last.allowed


(***************************************************************************)
(* Claims C11.., under Spec unless said otherwise.                         *)
(***************************************************************************)
DenialReasons == {DenialReason(adm) : adm \in AdmissionOutcomes \ {"allow"}}

\* C11: a request denied by the DDoS guard or by the rate limiter is answered at
\* once with a failure result that carries the denial reason; no cache lookup,
\* classification, model selection or backend call was made for it.
C11_DenialShortCircuits ==
    \A t \in Threads :
      response[t].error \in DenialReasons =>
        /\ pc[t] = "responded"
        /\ ~response[t].success /\ response[t].response = ""
        /\ calls[t] = NoCalls /\ selected[t] = << >>
        /\ step[t] = 0 /\ state[t] = InitialState("")

\* a request with overrides denied by the rate limiter, answered
C11_Witness ==
    /\ mode = "seq" /\ pc["B"] = "responded"
    /\ response["B"].error = DenialReason("rate")
    /\ user_models["B"] # NoUserModels

\* C12: on the heuristic path and on the path that delegates to the trained
\* classifier, classify_text returns one of S, M, A or fails with an error; it
\* never returns a value outside {S, M, A}.
C12_ReturnsTierOrFails ==
    cls_result # Pending => cls_result \in TierLabels \cup {AttributeError}

\* the same on the heuristic path alone (no trained classifier, or it raised)
C12_HeuristicReturnsTierOrFails ==
    (cls_result # Pending /\ cls_pipe \notin PipeLabels) =>
        cls_result \in TierLabels \cup {AttributeError}

C12_UnmappedLabelReturned ==
    /\ cls_pipe = "LABEL_0" /\ cls_result = "LABEL_0"

\* C13: empty or whitespace-only query text is a fatal classification error:
\* a dispatch of such a query (one the cache does not answer) gets no tier,
\* selects no model, calls no backend and does not return from route with a
\* final state (it ends in failure).
C13_BlankQueryFailsUndispatched ==
    (/\ mode = "single" /\ query["A"] \in BlankQueries
     /\ pc["A"] \notin {"idle", "responded", "done"} /\ ~state["A"].cache_hit) =>
        /\ state["A"].classification = None
        /\ calls["A"].select = 0 /\ calls["A"].llm = 0 /\ selected["A"] = << >>
        /\ pc["A"] # "respond"

\* classifying such text yields no tier
C13_BlankTextYieldsNoTier ==
    (cls_result # Pending /\ cls_text.is_str /\ word_count(cls_text) = 0) =>
        cls_result \notin TierLabels

PriceRowOf(model_name) ==
    IF model_name \in DOMAIN PRICES THEN PRICES[model_name] ELSE PRICES[DEFAULT_PRICE_ROW]

\* C14: calculate_cost(model, in, out) is (in * price_in + out * price_out) / 1e6
\* with the model's row of the price table, and with the designated default
\* row for a model that is not in the table.
C14_CostFromRowOrDefaultRow ==
    cost_result # NoCost =>
        cost_result = cost_in * PriceRowOf(cost_model).input
                        + cost_out * PriceRowOf(cost_model).output

\* the same for the models of the price table alone; 1000 in / 500 out at
\* 0.7 / 0.7 is 0.00105, i.e. 105000 * 10^-8
C14_CostFromOwnRow ==
    (cost_result # NoCost /\ cost_model \in DOMAIN PRICES) =>
        /\ cost_result = cost_in * PRICES[cost_model].input + cost_out * PRICES[cost_model].output
        /\ (cost_model = "qwen-2.5-72b-instruct" /\ cost_in = 1000 /\ cost_out = 500) =>
              cost_result = 105000

\* the identifier of the last call is registered with a score above every
\* other score of its tier (101 in a tier of its own) and leads every ranking
RanksFirst(model) ==
    /\ ratings[model].exists
    /\ LET tier == ratings[model].tier
           others == TierRows(ratings, tier) \ {model}
       IN /\ \A o \in others : ratings[o].score < ratings[model].score
          /\ others = {} => ratings[model].score = EMPTY_TIER_SCORE
          /\ \A r \in get_ranked_models(ratings, tier) : r[1] = model

\* C15: an identifier without a rating row that is registered through user key
\* creation or through the first feedback on it has, immediately after the
\* call, a score strictly greater than every other score in its tier (101 if
\* the tier was empty) and is first in the tier's ranked list.
C15_NewEntrantRanksFirst ==
    (/\ rt_last.op \in {"init", "feedback"} /\ ~rt_last.had_row
     /\ rt_last.op = "feedback" => rt_last.feedback_type \in DOMAIN POINTS) =>
        RanksFirst(rt_last.model)

\* the same for user key creation alone
C15_KeyCreationRanksFirst ==
    (rt_last.op = "init" /\ ~rt_last.had_row) =>
        RanksFirst(rt_last.model) /\ ratings[rt_last.model].tier = rt_last.tier

\* C20: for any interleaving of add_feedback calls on one model, each on its
\* own session, after k calls with deltas d1..dk returned success the score
\* of the model has changed by exactly d1 + ... + dk and total_feedbacks by
\* exactly k.
C20_NoLostFeedback ==
    \A m \in RatingModels :
      ratings0[m].exists =>
        /\ ratings[m].score = ratings0[m].score + fb_log[m].sum
        /\ ratings[m].total_feedbacks = ratings0[m].total_feedbacks + fb_log[m].count

\* C16: invoke tries its candidates strictly in list order, returns the record
\* of the first successful call without starting a further HTTP attempt, and
\* when no attempt succeeds raises an aggregate error that carries the last
\* underlying error; it never returns without a response.
C16_OrderedFirstSuccessOrAggregate ==
    /\ \A i, j \in DOMAIN fb_http : i < j => fb_http[i].idx <= fb_http[j].idx
    /\ \A i \in DOMAIN fb_http : Succeeds(fb_http[i].outcome) =>
          /\ i = Len(fb_http)
          /\ fb_pc = "returned"
    /\ fb_pc = "returned" =>
          /\ fb_http # << >>
          /\ Succeeds(fb_http[Len(fb_http)].outcome)
          /\ fb_result.kind = "record"
          /\ fb_result.model = fb_http[Len(fb_http)].model
          /\ fb_result.response = ContentOf(fb_http[Len(fb_http)].outcome)
    /\ fb_pc = "raised" =>
          /\ \A i \in DOMAIN fb_http : ~Succeeds(fb_http[i].outcome)
          /\ \A m \in fb_keyed :
                Cardinality({i \in DOMAIN fb_http : fb_http[i].model = m}) = ATTEMPTS_PER_MODEL
          /\ fb_result.kind = "raise"
          /\ fb_http # << >> => fb_result.last_error = ErrorOf(fb_http[Len(fb_http)].outcome)
    /\ fb_pc \in {"returned", "raised"} <=> fb_result # NoResult

C16_Witness ==
    /\ fb_pc = "returned"
    /\ Len(fb_http) = ATTEMPTS_PER_MODEL + 1
    /\ fb_result.model = fb_models[2]

C16_WitnessRaise ==
    /\ fb_pc = "raised"
    /\ Len(fb_http) = ATTEMPTS_PER_MODEL * 2
    /\ fb_result.last_error = "Request timeout (30s)"

\* C17: once the caller's timeout for a query has fired, no further backend
\* attempt is started for that query and its dispatch reaches terminal
\* failure: the workflow does not end with a backend response.
C17_TimeoutStopsRetries ==
    \A t \in Threads :
      (timeout_at[t] # NoTimeout /\ pc[t] \notin {"idle", "responded", "done"}) =>
        /\ calls[t].llm = timeout_at[t]
        /\ pc[t] \in {"END", "respond"} => state[t].cache_hit \/ Truthy(state[t].error)

\* C18: when the cache raises on lookup or on store, or there is no cache
\* object, the dispatch goes on as after a miss; no request ends in failure
\* because of a cache error.
C18_CacheErrorIsAMiss ==
    \A t \in Threads :
      /\ raised[t] # "cache error"
      /\ response[t].error # "cache error"

\* C19: for the same query, models configuration, max_retries, user_models and
\* collaborator behaviour, SimpleRouter.route and Router.route end with the
\* same final state: same cache_hit, classification, sequence of selected
\* models, retry_count, response and error.
C19_SimpleRouterEqualsRouter ==
    (mode = "equiv" /\ pc["B"] = "s_return" /\ pc["A"] \in {"END", "raise"}) =>
        /\ pc["A"] = "END"
        /\ state["A"].cache_hit = state["B"].cache_hit
        /\ state["A"].classification = state["B"].classification
        /\ selected["A"] = selected["B"]
        /\ state["A"].selected_model = state["B"].selected_model
        /\ state["A"].retry_count = state["B"].retry_count
        /\ state["A"].llm_response = state["B"].llm_response
        /\ state["A"].error = state["B"].error

\* the two routers do agree on a plain run: cache miss, a valid tier, no user
\* models, max_retries = 3, a tier with candidates and a successful first call
PlainScript ==
    /\ script.cache = "miss" /\ script.cls \in {"S", "M", "A"} /\ script.query # ""
    /\ script.user_models = NoUserModels /\ max_retries = MAX_RETRIES_PER_MODEL
    /\ script.llm[1] = "ok"
    /\ base_config[_map_classification_to_tier(script.cls)] # << >>

C19_RoutersAgreeOnPlainRuns ==
    (mode = "equiv" /\ pc["B"] = "s_return" /\ pc["A"] \in {"END", "raise"} /\ PlainScript) =>
        /\ pc["A"] = "END"
        /\ state["A"] = state["B"]
        /\ selected["A"] = selected["B"]
NextRateConc ==
    \/ \E w \in RateWorkers, id \in Identifiers : RC_Call(w, id)
    \/ \E w \in RateWorkers : RC_Acquire(w) \/ RC_Check(w) \/ RC_Record(w)
    \/ RL_Tick

SpecRateConc == InitRateConc /\ [][NextRateConc]_vars

\* C21: under any interleaving of concurrent check_rate_limit calls for one
\* identity the counter and ban mutations are serialized: the minute, hour and
\* day buckets never hold more admitted requests than the tier's limit for the
\* window, every admitted request is in the day bucket and every violation
\* recorded since the last unban is in the violation counter.
C21_SerializedCounters ==
    \A id \in Identifiers :
       /\ Len(minute_buckets[id]) <= LimitsOf(user_tier).minute
       /\ Len(hour_buckets[id]) <= LimitsOf(user_tier).hourly
       /\ Len(day_buckets[id]) <= LimitsOf(user_tier).daily
       /\ Len(day_buckets[id]) = rl_done[id].admitted
       /\ violations[id] = rl_done[id].violations
       /\ Cardinality({w \in RateWorkers : rl_call[w].pc \in {"locked", "checked"}}) <= 1

C21_Witness ==
    \E id \in Identifiers : \E w, x \in RateWorkers :
       /\ rl_call[w].pc = "checked" /\ rl_call[w].reason \in WindowDenials
       /\ rl_call[x].pc = "waiting"
       /\ Len(minute_buckets[id]) = LimitsOf(user_tier).minute
       /\ rl_done[id].violations >= 1

\* the errors classify_query reports (lines 104, 110, 119)
ClassificationErrors ==
    {"No query provided for classification", "Invalid classification", "Error in classify_query"}

\* C22: when classification fails (the classifier raises, the label is not
\* S, M or A, or the query is empty) Router.route ends in terminal failure
\* carrying the classification error: route reaches END with that error, no
\* model was selected, no backend call was made and none of the nodes ran
\* more than once.
C22_ClassificationFailureIsTerminal ==
    (/\ mode = "single" /\ pc["A"] \in {"END", "raise"}
     /\ ~state["A"].cache_hit /\ raised["A"] # "cache error"
     /\ state["A"].classification = None) =>
        /\ pc["A"] = "END"
        /\ state["A"].error \in ClassificationErrors
        /\ calls["A"].select = 0 /\ calls["A"].llm = 0
        /\ step["A"] <= 6

\* the query of t was classified and its tier holds no candidate
NoCandidates(t) ==
    /\ ~state[t].cache_hit /\ state[t].classification # None
    /\ models_config[_map_classification_to_tier(state[t].classification)] = << >>

\* C23: when the tier chosen by classification has zero candidates, routing
\* ends in terminal failure whose error reports that no candidates are
\* available, without any backend call, in Router.route and in
\* SimpleRouter.route.
C23_NoCandidatesIsReported ==
    \A t \in Threads :
       (pc[t] \in {"END", "s_return"} /\ NoCandidates(t)) =>
           /\ state[t].error = "No models available"
           /\ calls[t].llm = 0

\* len(candidates_in_tier) * max_retries_per_model for the classified query of t
RetryBudget(t) ==
    Len(models_config[_map_classification_to_tier(state[t].classification)]) * max_retries

\* the positions of a query inside the workflow run or the SimpleRouter loop
InDispatch(t) ==
    pc[t] \in {"check_cache", "classify_query", "select_model", "call_llm", "handle_error",
               "store_in_cache", "END", "s_check_cache", "s_classify_query", "s_loop",
               "s_call_llm", "s_store_in_cache", "s_return"}

\* C24: in every reachable state of a dispatch, retry_count is strictly less
\* than len(candidates_in_tier) * max_retries_per_model.
C24_RetryCountBelowBudget ==
    \A t \in Threads :
       (InDispatch(t) /\ state[t].classification # None) =>
           state[t].retry_count < RetryBudget(t)

\* C24 with the bound the code keeps: a selection leaves retry_count at most
\* at len(candidates_in_tier) * MAX_RETRIES_PER_MODEL, for the candidate list
\* that selection read; the bound itself is reached by the last attempt.
C24_RetryCountWithinBudget ==
    [][\A t \in Threads :
          (state'[t].retry_count # state[t].retry_count /\ state'[t].classification # None) =>
              state'[t].retry_count <=
                  Len(models_config[_map_classification_to_tier(state'[t].classification)])
                      * MAX_RETRIES_PER_MODEL]_vars

C24_Witness ==
    \E t \in Threads :
       /\ InDispatch(t) /\ state[t].classification # None
       /\ state[t].retry_count >= MAX_RETRIES_PER_MODEL
       /\ state[t].retry_count = RetryBudget(t)
       /\ calls[t].llm = state[t].retry_count

\* route, lines 306-315: the candidate lists of the query of t as route set
\* them up before workflow.invoke: the copy it took with its own overrides in front
StartConfig(t) ==
    IF HasUserModels(user_models[t])
    THEN [tier \in Tiers |-> user_models[t].ids[tier] \o original_models_config[t][tier]]
    ELSE original_models_config[t]

\* C25: a dispatch uses one ordered candidate list, taken at the start of the
\* query, for all of its retries: every selection of the query picks the
\* candidate, and applies the retry budget, that the lists of the start of
\* the query give, whatever was applied to the router in the meantime.
C25_SelectionsUseStartSnapshot ==
    [][\A t \in Threads :
          (pc[t] = "select_model" /\ pc'[t] # "select_model") =>
              state'[t] = select_model(state[t], StartConfig(t))]_vars

NextApi == RouterStep("A") \/ SM_Save("A") \/ CallerTimeout("A")

SpecApi == InitSingle /\ [][NextApi]_vars

\* C26: a (query, response) pair is written to a cache only after a
\* successful backend call: the router's cache is written only for a state
\* with a backend response that did not come from the cache, and
\* send_message gives a result to the conversation cache only when the
\* dispatch succeeded without error and was not answered from the cache.
C26_OnlySuccessIsCached ==
    /\ calls["A"].cache_set > 0 =>
          (Truthy(state["A"].llm_response) /\ ~state["A"].cache_hit /\ calls["A"].llm > 0)
    /\ conv_saved["A"].written =>
          /\ conv_saved["A"].success /\ conv_saved["A"].error = None
          /\ ~conv_saved["A"].cache_hit

\* the router's own cache is written only after a successful backend call
C26_RouterCacheOnlyAfterSuccess ==
    calls["A"].cache_set > 0 =>
        (Truthy(state["A"].llm_response) /\ ~state["A"].cache_hit /\ calls["A"].llm > 0)

\* the HTTP attempts made so far for candidate m
AttemptsFor(m) == Cardinality({i \in DOMAIN fb_http : fb_http[i].model = m})

\* C27: invoke(prompt, max_retries) attempts the remote call for each
\* candidate up to max_retries times before it moves on: no candidate gets
\* more than max_retries attempts, and when every call failed each candidate
\* with a credential got exactly max_retries attempts, the number the final
\* error message states.
C27_MaxRetriesAttemptsPerCandidate ==
    /\ \A m \in fb_keyed : AttemptsFor(m) <= fb_max_retries
    /\ fb_pc = "raised" =>
          \A m \in fb_keyed :
             /\ AttemptsFor(m) = fb_max_retries
             /\ AttemptsFor(m) = fb_result.retries

\* the credential the claimed order gives: the user's key for the model, then
\* the provider-family key, then the global default key
ClaimedKey(creds, m) ==
    IF creds.user[m] # NoKey THEN creds.user[m]
    ELSE IF InFamily(m) /\ Truthy(creds.family_env) THEN creds.family_env
    ELSE creds.default

\* the credential with the order the code keeps: between the user's key and
\* the family key comes the key of the model's own environment variable
ResolvedKey(creds, m) ==
    IF creds.user[m] # NoKey THEN creds.user[m]
    ELSE IF InKeyMap(m) /\ Truthy(creds.model_env) THEN creds.model_env
    ELSE IF InFamily(m) /\ Truthy(creds.family_env) THEN creds.family_env
    ELSE creds.default

\* every attempt carries the key that resolve gives, a candidate without a
\* resolved key gets no attempt, and the candidates invoke has passed that
\* have a key were tried
UsesCredentials(resolve(_, _)) ==
    /\ \A i \in DOMAIN fb_http :
          /\ fb_http[i].key = resolve(fb_creds, fb_http[i].model)
          /\ Truthy(fb_http[i].key)
    /\ \A k \in DOMAIN fb_models :
          /\ ~Truthy(resolve(fb_creds, fb_models[k])) => AttemptsFor(fb_models[k]) = 0
          /\ (Truthy(resolve(fb_creds, fb_models[k])) /\ fb_pc = "loop" /\ fb_idx > k) =>
                AttemptsFor(fb_models[k]) >= 1
          /\ (Truthy(resolve(fb_creds, fb_models[k])) /\ fb_pc = "raised") =>
                AttemptsFor(fb_models[k]) >= 1

\* C28: credential resolution for a candidate prefers a per-model user key,
\* then a provider-family key, then the global default key; a user-supplied
\* key is never replaced by an environment-derived one; a candidate for which
\* no credential resolves gets zero HTTP attempts and the candidates after
\* it are still tried in order.
C28_UserThenFamilyThenDefault ==
    UsesCredentials(ClaimedKey)

\* C28 with the order the code keeps: user key, then the key of the model's
\* own environment variable (MODEL_KEY_MAP), then the provider-family key,
\* then the global default key.
C28_UserThenModelEnvThenFamilyThenDefault ==
    UsesCredentials(ResolvedKey)

C28_Witness ==
    /\ Len(fb_models) >= 2
    /\ fb_creds.user[fb_models[1]] = NoKey /\ fb_creds.default = NoKey
    /\ fb_creds.model_env = NoKey /\ fb_creds.family_env = NoKey
    /\ fb_creds.user[fb_models[2]] = "user-key"
    /\ AttemptsFor(fb_models[1]) = 0
    /\ fb_pc = "raised" /\ AttemptsFor(fb_models[2]) = ATTEMPTS_PER_MODEL

\* C29: for every tier size N >= 1 the retry budget of 3N attempts, not the
\* recursion limit of 50 steps, ends an all-failing dispatch: the workflow
\* run never stops with the recursion-limit error, and when it has made its
\* 3N failing calls it goes to END.
C29_BudgetNotRecursionLimitEndsDispatch ==
    \A t \in Threads :
       (mode = "seq" /\ AllCallsFailed(t)) =>
           /\ raised[t] # "Recursion limit reached"
           /\ pc[t] = "raise" => calls[t].llm = MAX_RETRIES_PER_MODEL * TierSizeOf(t)

NextRateMix ==
    \/ \E id \in Identifiers : RL_Check(id)
    \/ \E tier \in RateTiers : RL_SetTier(tier)
    \/ RL_Tick

SpecRateMix == InitRateMix /\ [][NextRateMix]_vars

\* C30: after any sequence of check_rate_limit calls for an identity, with
\* any mix of tiers, and any passage of time, each remaining-count value that
\* get_rate_limit_headers reports for a window lies between 0 and the
\* window's limit, and the requests it counts as used are requests that are
\* still inside the window.
C30_RemainingWithinLimitAndLive ==
    \A id \in Identifiers :
       LET h == get_rate_limit_headers(id, user_tier)
           L == tier_limits[user_tier]
       IN /\ h.remaining_minute \in 0..L.minute
          /\ h.remaining_hour \in 0..L.hourly
          /\ h.remaining_day \in 0..L.daily
          /\ L.minute - h.remaining_minute <= LiveCount(minute_buckets[id], now, 60)
          /\ L.hourly - h.remaining_hour <= LiveCount(hour_buckets[id], now, 3600)
          /\ L.daily - h.remaining_day <= LiveCount(day_buckets[id], now, 86400)

====
